---- MODULE Spec2Model ----
(***************************************************************************)
(* Content ingestion and normalization pipeline of the Lexical prototype:  *)
(* the paste dispatcher (SmartPastePlugin), the heading policy transform   *)
(* (HeadingPolicyPlugin), the per-editor singleton registries of the       *)
(* plugins, and the undo history the editor keeps per committed update.    *)
(*                                                                         *)
(* A heading tag 'hN' is modelled by its rank N.  The document is the      *)
(* ordered sequence of the root's block nodes.                             *)
(***************************************************************************)
EXTENDS Integers, Sequences, FiniteSets, TLC

VARIABLES
  tree,        \* the root's children in the committed editor state
  undoStack,   \* history: one earlier tree per committed, tree-changing update
  editable,    \* editor.isEditable()
  selection,   \* TRUE iff $getSelection() is a range selection
  pending,     \* the update closure editor.update() queued, or NoClosure
  last,        \* what the most recent paste dispatch did (observation only)
  registered,  \* per plugin: the editor is in the module's registeredEditors
  handlers,    \* per plugin: handlers/transforms registered on the editor
  inst,        \* per plugin and component instance: its mount state
  invocations, \* paste handler invocations made for the last dispatched event
  probe        \* argument and result of the last call of a pure function

vars == <<tree, undoStack, editable, selection, pending, last,
          registered, handlers, inst, invocations, probe>>

pasteVars == <<tree, undoStack, editable, selection, pending, last>>
mountVars == <<registered, handlers, inst, invocations>>
fnVars == <<probe>>

----------------------------------------------------------------------------
(* Bounds of the model *)

MaxNodes == 2      \* nodes carried by one clipboard payload
MaxTree == 3       \* blocks in the document
MaxUndo == 2       \* entries kept in the undo history
MaxInstances == 2  \* component instances of one plugin mounted on the editor

----------------------------------------------------------------------------
(* Heading policy: constants/heading-policy.ts *)

ALLOWED_HEADING_TAGS == {1, 2, 3}

DISALLOWED_HEADING_TAGS == {4, 5, 6}

(* Variant of the predicate that holds of the allowed tags as well *)
shouldNormalizeAnyHeadingTag(tag) == tag \in ALLOWED_HEADING_TAGS \cup DISALLOWED_HEADING_TAGS

shouldNormalizeHeadingTag(tag) == tag \in DISALLOWED_HEADING_TAGS

(* Nodes.  A heading carries its tag, the element format, indent and       *)
(* direction, and its inline children in order.                            *)
HeadingNode(tag, format, indent, direction, children) ==
  [type |-> "heading", tag |-> tag, format |-> format, indent |-> indent,
   direction |-> direction, children |-> children]

TextBlock(text) ==
  [type |-> "text", tag |-> 0, format |-> 0, indent |-> 0,
   direction |-> "ltr", children |-> <<text>>]

(* The headings external content brings in: an allowed one, one of the     *)
(* h4-h6 range with non-default format, indent, direction and two inline   *)
(* children, and one whose tag lies beyond h6 (a serialized node's tag is  *)
(* not validated by the deserializer).                                     *)
NodePool ==
  { HeadingNode(1, 0, 0, "ltr", <<"A">>),
    HeadingNode(5, 2, 2, "rtl", <<"B", "C">>),
    HeadingNode(7, 0, 1, "ltr", <<"D">>) }

SeqsUpTo(S, n) == UNION { [1..k -> S] : k \in 1..n }

(* Node lists of up to MaxNodes nodes, in ascending tag order *)
Payloads ==
  { p \in SeqsUpTo(NodePool, MaxNodes) :
      \A i \in 1..(Len(p) - 1) : p[i].tag < p[i + 1].tag }

(* Markup can only express h1..h6 *)
DomPayloads == { p \in Payloads : \A i \in 1..Len(p) : p[i].tag <= 6 }

----------------------------------------------------------------------------
(* HeadingPolicyPlugin node transform: unnamed/part_005 *)

RECURSIVE MoveChildren(_, _)
(* children.forEach(child => { child.remove(); newNode.append(child) }) *)
MoveChildren(children, moved) ==
  IF children = <<>> THEN moved
  ELSE MoveChildren(Tail(children), Append(moved, Head(children)))

(* Variant of the transform without the early return for the allowed tags  *)
(* (54-59): every heading of an editable editor is replaced by an h3.      *)
HeadingTransformReplacingAll(node, isEditable) ==
  IF node.type # "heading" THEN node
  ELSE IF ~isEditable THEN node
  ELSE HeadingNode(3, node.format, node.indent, node.direction,
                   MoveChildren(node.children, <<>>))

(* Variant of the transform without the isEditable guard (48-52), as in    *)
(* the earlier revision of the plugin (SmartPastePlugin.tsx:699-721).      *)
HeadingTransformUnguarded(node, isEditable) ==
  IF node.type # "heading" THEN node
  ELSE IF ~shouldNormalizeHeadingTag(node.tag) THEN node
  ELSE HeadingNode(3, node.format, node.indent, node.direction,
                   MoveChildren(node.children, <<>>))

HeadingTransform(node, isEditable) ==
  IF node.type # "heading" THEN node
  ELSE IF ~isEditable THEN node
  ELSE IF ~shouldNormalizeHeadingTag(node.tag) THEN node
  ELSE HeadingNode(3, node.format, node.indent, node.direction,
                   MoveChildren(node.children, <<>>))

(* One pass of the registered transforms over the dirty nodes *)
TransformPass(nodes, isEditable) ==
  [i \in 1..Len(nodes) |-> HeadingTransform(nodes[i], isEditable)]

RECURSIVE Settle(_, _)
(* The engine re-runs the transforms while a pass still changes a node *)
Settle(nodes, isEditable) ==
  LET next == TransformPass(nodes, isEditable)
  IN IF next = nodes THEN nodes ELSE Settle(next, isEditable)

----------------------------------------------------------------------------
(* Sanitization guards: unnamed/part_002 and SmartPastePlugin.tsx *)

MAX_PASTE_SIZE == 500 * 1024

MAX_SANITIZATION_TIME_MS == 150

(* new Blob([htmlContent]).size > MAX_PASTE_SIZE, on the encoded byte length *)
exceedsSizeLimit(html) == html.bytes > MAX_PASTE_SIZE

----------------------------------------------------------------------------
(* A paste event and its representations *)

(* application/x-lexical-editor: blank, not JSON, JSON from which no node  *)
(* list is extracted, or JSON holding a node list                          *)
LexicalRep(kind, nodes) == [kind |-> kind, nodes |-> nodes]

(* text/html: its encoded size, the time sanitizeHTML takes on it, whether *)
(* the sanitized markup is non-blank, the nodes $generateNodesFromDOM      *)
(* makes of it, and the text left when its tags are stripped               *)
HtmlRep(blank, bytes, ms, clean, dom, stripped) ==
  [blank |-> blank, bytes |-> bytes, ms |-> ms, clean |-> clean,
   dom |-> dom, stripped |-> stripped]

BlankHtml == HtmlRep(TRUE, 0, 0, FALSE, <<>>, "")

OneDom == << HeadingNode(1, 0, 0, "ltr", <<"A">>) >>

OkHtml(dom) ==
  HtmlRep(FALSE, MAX_PASTE_SIZE, MAX_SANITIZATION_TIME_MS, TRUE, dom, "s")

(* Markup over the size limit, markup whose sanitization overruns, markup  *)
(* that sanitizes to nothing, and markup within both limits                *)
GuardedHtmlReps ==
  { HtmlRep(FALSE, MAX_PASTE_SIZE + 1, MAX_SANITIZATION_TIME_MS, TRUE, OneDom, s)
    : s \in {"", "s"} }
  \cup { HtmlRep(FALSE, MAX_PASTE_SIZE, MAX_SANITIZATION_TIME_MS + 1, TRUE, OneDom, "s"),
         HtmlRep(FALSE, MAX_PASTE_SIZE, MAX_SANITIZATION_TIME_MS, FALSE, <<>>, "s") }

HtmlReps ==
  {BlankHtml} \cup GuardedHtmlReps \cup { OkHtml(d) : d \in DomPayloads \cup {<<>>} }

TextReps == {"", " ", "t"}

PasteEvent(clipboard, lexical, html, text) ==
  [clipboard |-> clipboard, lexical |-> lexical, html |-> html, text |-> text]

(* Events: one without clipboard data; events whose native payload holds   *)
(* nodes, alone or next to markup; events with no native payload or an     *)
(* unparsable one, next to any markup; events whose native payload parses  *)
(* but holds no node list, next to markup                                  *)
Events ==
  { PasteEvent(FALSE, LexicalRep("blank", <<>>), BlankHtml, "") }
  \cup { PasteEvent(TRUE, LexicalRep("nodes", p), h, "")
         : p \in Payloads, h \in {BlankHtml, OkHtml(OneDom)} }
  \cup { PasteEvent(TRUE, LexicalRep(k, <<>>), h, t)
         : k \in {"blank", "notjson"}, h \in HtmlReps, t \in {"", "t"} }
  \cup { PasteEvent(TRUE, LexicalRep("noshape", <<>>), h, t)
         : h \in {BlankHtml, OkHtml(OneDom)} \cup GuardedHtmlReps, t \in TextReps }

(* What can go wrong inside the update closure: nothing, the node          *)
(* conversion throws, insertNodes throws after attaching k of the nodes,   *)
(* or selectEnd throws after all of them are attached                      *)
Fault(at, k) == [at |-> at, k |-> k]

NoFault == Fault("none", 0)

Faults(n) ==
  {NoFault, Fault("convert", 0), Fault("selectEnd", 0)}
  \cup { Fault("insert", k) : k \in 0..(n - 1) }

----------------------------------------------------------------------------
(* The update closures of the dispatcher: SmartPastePlugin.tsx *)

Closure(kind, nodes, fault) == [kind |-> kind, nodes |-> nodes, fault |-> fault]

NoClosure == Closure("none", <<>>, NoFault)

Ran(inserted, success) == [inserted |-> inserted, success |-> success]

(* Variant of the closure that sets insertionSuccess before the insertion *)
(* has finished, so a throw from insertNodes or selectEnd leaves it true.  *)
InsertNodesClosureEagerSuccess(c, hasSel) ==
  IF ~hasSel THEN Ran(<<>>, FALSE)
  ELSE IF c.fault.at = "convert" THEN Ran(<<>>, FALSE)
  ELSE IF Len(c.nodes) = 0 THEN Ran(<<>>, FALSE)
  ELSE IF c.fault.at = "insert" THEN Ran(SubSeq(c.nodes, 1, c.fault.k), TRUE)
  ELSE Ran(c.nodes, TRUE)

(* Variant of the closure without the $isRangeSelection check (192-198,   *)
(* 284-290): the nodes are attached wherever the editor puts them.         *)
InsertNodesClosureNoSelectionCheck(c, hasSel) ==
  IF c.fault.at = "convert" THEN Ran(<<>>, FALSE)
  ELSE IF Len(c.nodes) = 0 THEN Ran(<<>>, FALSE)
  ELSE IF c.fault.at = "insert" THEN Ran(SubSeq(c.nodes, 1, c.fault.k), FALSE)
  ELSE IF c.fault.at = "selectEnd" THEN Ran(c.nodes, FALSE)
  ELSE Ran(c.nodes, TRUE)

(* editor.update(() => {...}) of handleLexicalFastPath (191-235) and of    *)
(* handleHtmlPaste (283-328): the nodes attached to the tree and the       *)
(* value insertionSuccess holds when the closure returns.  The closure     *)
(* catches what it throws, so the engine commits what was attached.        *)
InsertNodesClosure(c, hasSel) ==
  IF ~hasSel THEN Ran(<<>>, FALSE)
  ELSE IF c.fault.at = "convert" THEN Ran(<<>>, FALSE)
  ELSE IF Len(c.nodes) = 0 THEN Ran(<<>>, FALSE)
  ELSE IF c.fault.at = "insert" THEN Ran(SubSeq(c.nodes, 1, c.fault.k), FALSE)
  ELSE IF c.fault.at = "selectEnd" THEN Ran(c.nodes, FALSE)
  ELSE Ran(c.nodes, TRUE)

(* editor.update(() => {...}) of handlePlaintextFallback (366-383) *)
InsertTextClosure(c, hasSel) ==
  IF ~hasSel THEN Ran(<<>>, FALSE)
  ELSE IF c.fault.at # "none" THEN Ran(<<>>, FALSE)
  ELSE Ran(c.nodes, TRUE)

RunClosure(c, hasSel) ==
  IF c.kind = "text" THEN InsertTextClosure(c, hasSel)
  ELSE InsertNodesClosure(c, hasSel)

(* What a handler hands back: its return value, the closure it passed to   *)
(* editor.update, whether that closure is still queued, what a closure run *)
(* inside the call attached, and which representations the handler read    *)
Handled(result, closure, queued, inserted, path, htmlRead, sanitized, threw) ==
  [result |-> result, closure |-> closure, queued |-> queued,
   inserted |-> inserted, path |-> path, htmlRead |-> htmlRead,
   sanitized |-> sanitized, threw |-> threw]

(* editor.update(closure); return insertionSuccess.  With no update active *)
(* the engine runs the closure inside the call; while an update is active  *)
(* (a command listener runs inside the dispatching update) it queues the   *)
(* closure, and insertionSuccess still holds its initial false.            *)
UpdateAndReturn(c, updating, hasSel, path, htmlRead, sanitized) ==
  IF updating
  THEN Handled(FALSE, c, TRUE, <<>>, path, htmlRead, sanitized, FALSE)
  ELSE LET r == RunClosure(c, hasSel)
       IN Handled(r.success, c, FALSE, r.inserted, path, htmlRead, sanitized, FALSE)

Rejected(path, htmlRead, sanitized) ==
  Handled(FALSE, NoClosure, FALSE, <<>>, path, htmlRead, sanitized, FALSE)

Thrown(path, htmlRead, sanitized) ==
  Handled(FALSE, NoClosure, FALSE, <<>>, path, htmlRead, sanitized, TRUE)

handleLexicalFastPath(lexical, fault, updating, hasSel) ==
  IF lexical.kind # "nodes"
  THEN Rejected("native", FALSE, FALSE)
  ELSE UpdateAndReturn(Closure("nodes", lexical.nodes, fault),
                       updating, hasSel, "native", FALSE, FALSE)

stripHtmlToText(html) == html.stripped

(* String.prototype.trim on the texts of the model: "", " " and "t" *)
Trim(text) == IF text \in {"", " "} THEN "" ELSE text

(* Variant of handlePlaintextFallback that prefers the text stripped from  *)
(* the markup and takes text/plain only when that is blank.                *)
handlePlaintextFallbackPreferringMarkup(html, clipboardText, fault, updating, hasSel, sanitized) ==
  LET fromMarkup == stripHtmlToText(html)
      plainText == IF Trim(fromMarkup) = "" THEN clipboardText ELSE fromMarkup
  IN IF Trim(plainText) = ""
     THEN Rejected("plaintext", TRUE, sanitized)
     ELSE UpdateAndReturn(Closure("text", <<TextBlock(plainText)>>, fault),
                          updating, hasSel, "plaintext", TRUE, sanitized)

handlePlaintextFallback(html, clipboardText, fault, updating, hasSel, sanitized) ==
  LET fromClipboard == IF Trim(clipboardText) # "" THEN clipboardText ELSE ""
      plainText == IF Trim(fromClipboard) = "" THEN stripHtmlToText(html)
                   ELSE fromClipboard
  IN IF Trim(plainText) = ""
     THEN Rejected("plaintext", TRUE, sanitized)
     ELSE UpdateAndReturn(Closure("text", <<TextBlock(plainText)>>, fault),
                          updating, hasSel, "plaintext", TRUE, sanitized)

(* handleHtmlPaste(editor, htmlContent, startTime) names clipboardData in  *)
(* both calls of handlePlaintextFallback (256, 269), and no clipboardData  *)
(* is bound in its scope or in the module's: evaluating the argument       *)
(* throws a ReferenceError before handlePlaintextFallback is entered.      *)
ClipboardDataBound == FALSE

(* Variant of handleHtmlPaste that treats an empty sanitizer result like a *)
(* tripped guard and hands the event to the plaintext fallback.            *)
handleHtmlPasteEmptyToPlaintext(html, clipboardText, fault, updating, hasSel) ==
  IF exceedsSizeLimit(html) THEN Thrown("markup", TRUE, FALSE)
  ELSE IF html.ms > MAX_SANITIZATION_TIME_MS THEN Thrown("markup", TRUE, TRUE)
  ELSE IF ~html.clean
  THEN handlePlaintextFallback(html, clipboardText, fault, updating, hasSel, TRUE)
  ELSE UpdateAndReturn(Closure("nodes", html.dom, fault),
                       updating, hasSel, "markup", TRUE, TRUE)

handleHtmlPaste(html, clipboardText, fault, updating, hasSel) ==
  IF exceedsSizeLimit(html)
  THEN IF ClipboardDataBound
       THEN handlePlaintextFallback(html, clipboardText, fault, updating, hasSel, FALSE)
       ELSE Thrown("markup", TRUE, FALSE)
  ELSE IF html.ms > MAX_SANITIZATION_TIME_MS
  THEN IF ClipboardDataBound
       THEN handlePlaintextFallback(html, clipboardText, fault, updating, hasSel, TRUE)
       ELSE Thrown("markup", TRUE, TRUE)
  ELSE IF ~html.clean
  THEN Rejected("markup", TRUE, TRUE)
  ELSE UpdateAndReturn(Closure("nodes", html.dom, fault),
                       updating, hasSel, "markup", TRUE, TRUE)

(* Variant of handleSmartPaste without the try/catch of 97-125: what a     *)
(* callee throws leaves the handler.                                       *)
Uncaught(h) == h

(* handleSmartPaste (77-126).  A throw of handleHtmlPaste is caught at 122 *)
(* and turned into a normal return of false.                               *)
Caught(h) == IF h.threw THEN [h EXCEPT !.result = FALSE, !.threw = FALSE] ELSE h

(* Variant of handleSmartPaste that inserts the text/plain representation *)
(* itself when the event has neither a native payload nor markup.          *)
handleSmartPasteInsertingText(ev, fault, isEditable, updating, hasSel) ==
  IF ~isEditable THEN Rejected("guard", FALSE, FALSE)
  ELSE IF ~ev.clipboard THEN Rejected("guard", FALSE, FALSE)
  ELSE IF ev.lexical.kind \notin {"blank", "notjson"}
  THEN handleLexicalFastPath(ev.lexical, fault, updating, hasSel)
  ELSE IF ~ev.html.blank
  THEN Caught(handleHtmlPaste(ev.html, ev.text, fault, updating, hasSel))
  ELSE handlePlaintextFallback(ev.html, ev.text, fault, updating, hasSel, FALSE)

(* Variant of handleSmartPaste without the isEditable guard (80-86) *)
handleSmartPasteUnguarded(ev, fault, isEditable, updating, hasSel) ==
  IF ~ev.clipboard THEN Rejected("guard", FALSE, FALSE)
  ELSE IF ev.lexical.kind \notin {"blank", "notjson"}
  THEN handleLexicalFastPath(ev.lexical, fault, updating, hasSel)
  ELSE IF ~ev.html.blank
  THEN Caught(handleHtmlPaste(ev.html, ev.text, fault, updating, hasSel))
  ELSE Rejected("none", TRUE, FALSE)

(* Variant of handleSmartPaste that tries the representations in the      *)
(* opposite order: text/html first, the native payload only without it.    *)
handleSmartPasteMarkupFirst(ev, fault, isEditable, updating, hasSel) ==
  IF ~isEditable THEN Rejected("guard", FALSE, FALSE)
  ELSE IF ~ev.clipboard THEN Rejected("guard", FALSE, FALSE)
  ELSE IF ~ev.html.blank
  THEN Caught(handleHtmlPaste(ev.html, ev.text, fault, updating, hasSel))
  ELSE IF ev.lexical.kind \notin {"blank", "notjson"}
  THEN handleLexicalFastPath(ev.lexical, fault, updating, hasSel)
  ELSE Rejected("none", TRUE, FALSE)

handleSmartPaste(ev, fault, isEditable, updating, hasSel) ==
  IF ~isEditable THEN Rejected("guard", FALSE, FALSE)
  ELSE IF ~ev.clipboard THEN Rejected("guard", FALSE, FALSE)
  ELSE IF ev.lexical.kind \notin {"blank", "notjson"}
  THEN handleLexicalFastPath(ev.lexical, fault, updating, hasSel)
  ELSE IF ~ev.html.blank
  THEN Caught(handleHtmlPaste(ev.html, ev.text, fault, updating, hasSel))
  ELSE Rejected("none", TRUE, FALSE)

(* handleSmartPaste holds no call of event.preventDefault() *)
preventDefaultCalled(h) == FALSE

----------------------------------------------------------------------------
(* The editor: committed tree, history, and the dispatch of PASTE_COMMAND *)

(* Variant of the history listener that records a second entry when the   *)
(* commit normalized a heading, as if the transform ran in its own update. *)
PushHistoryPerTransform(stack, before, after) ==
  IF after = before THEN stack
  ELSE IF \E i \in 1..Len(after) : i > Len(before) /\ after[i].tag = 3
       THEN Append(Append(stack, before), after)
       ELSE Append(stack, before)

(* The history listener keeps the previous state of every commit that      *)
(* changed the tree (an update that dirties nothing commits nothing).      *)
PushHistory(stack, before, after) ==
  IF after = before THEN stack ELSE Append(stack, before)

(* A transaction attaches nodes at the selection (the end of the document) *)
(* and the transforms settle them before the commit.                       *)
Transact(before, attached, isEditable, transforms) ==
  before \o (IF transforms > 0 THEN Settle(attached, isEditable) ELSE attached)

HtmlClass(html) ==
  IF html.blank THEN "blank"
  ELSE IF exceedsSizeLimit(html) THEN "oversize"
  ELSE IF html.ms > MAX_SANITIZATION_TIME_MS THEN "slow"
  ELSE IF ~html.clean THEN "empty"
  ELSE "ok"

Observed(op, h, ev, fault, updating, done) ==
  [op |-> op, result |-> h.result, prevented |-> preventDefaultCalled(h),
   pre |-> tree, preUndo |-> Len(undoStack), sel |-> selection,
   lexical |-> ev.lexical.kind, html |-> HtmlClass(ev.html),
   plain |-> Trim(ev.text) # "" \/ Trim(ev.html.stripped) # "",
   path |-> h.path, htmlRead |-> h.htmlRead, sanitized |-> h.sanitized,
   fault |-> fault.at, updating |-> updating, done |-> done,
   clipboard |-> ev.clipboard, threw |-> h.threw,
   opened |-> h.closure # NoClosure, nodes |-> h.closure.nodes,
   attached |-> h.inserted]

NoHandled == Rejected("none", FALSE, FALSE)

NoEvent == PasteEvent(FALSE, LexicalRep("blank", <<>>), BlankHtml, "")

Idle == [Observed("idle", NoHandled, NoEvent, NoFault, FALSE, TRUE)
           EXCEPT !.pre = <<>>, !.preUndo = 0, !.sel = FALSE]

EventNodes(ev) ==
  IF ev.lexical.kind = "nodes" THEN ev.lexical.nodes ELSE ev.html.dom

(* An event is dispatched inside the engine's dispatching update or, by a  *)
(* direct call of the handler, outside any update; faults are drawn for    *)
(* the events whose handling opens an update.                              *)
OpensUpdate(ev, isEditable) ==
  handleSmartPaste(ev, NoFault, isEditable, TRUE, TRUE).closure # NoClosure

Contexts(ev, isEditable) ==
  IF OpensUpdate(ev, isEditable) THEN BOOLEAN ELSE {TRUE}

FaultsOf(ev, isEditable) ==
  IF OpensUpdate(ev, isEditable) THEN Faults(Len(EventNodes(ev))) ELSE {NoFault}

Plugins == {"paste", "heading", "list"}

Instances == 1..MaxInstances

(* No pure function has been called *)
NoProbe == [op |-> "none"]

(* The editor as the application shows it: empty, editable, each plugin    *)
(* mounted once                                                            *)
InitEditor ==
  /\ tree = <<>>
  /\ undoStack = <<>>
  /\ editable = TRUE
  /\ selection = FALSE
  /\ pending = NoClosure
  /\ last = Idle
  /\ registered = [p \in Plugins |-> TRUE]
  /\ handlers = [p \in Plugins |-> 1]
  /\ inst = [p \in Plugins |-> [i \in Instances |-> IF i = 1 THEN "owner" ELSE "unmounted"]]
  /\ invocations = 0

Init ==
  /\ InitEditor
  /\ probe = NoProbe

(* editor.setEditable(b) *)
SetEditable ==
  /\ pending = NoClosure
  /\ editable' = ~editable
  /\ last' = Idle
  /\ UNCHANGED <<tree, undoStack, selection, pending>>
  /\ UNCHANGED mountVars
  /\ UNCHANGED fnVars

(* The user places the caret in the document, or the editor loses it *)
SetSelection ==
  /\ pending = NoClosure
  /\ selection' = ~selection
  /\ last' = Idle
  /\ UNCHANGED <<tree, undoStack, editable, pending>>
  /\ UNCHANGED mountVars
  /\ UNCHANGED fnVars

(* Programmatic construction: editor.update(() => root.append(...nodes)) *)
Construct ==
  /\ pending = NoClosure
  /\ Len(undoStack) < MaxUndo
  /\ \E nodes \in Payloads :
       /\ Len(tree) + Len(nodes) <= MaxTree
       /\ tree' = Transact(tree, nodes, editable, handlers["heading"])
       /\ undoStack' = PushHistory(undoStack, tree, tree')
       /\ last' = [Idle EXCEPT !.op = "construct", !.pre = tree,
                                !.preUndo = Len(undoStack),
                                !.nodes = nodes, !.attached = nodes]
  /\ UNCHANGED <<editable, selection, pending>>
  /\ UNCHANGED mountVars
  /\ UNCHANGED fnVars

(* editor.dispatchCommand(PASTE_COMMAND, event) reaching handleSmartPaste  *)
DispatchPaste ==
  /\ handlers["paste"] > 0
  /\ pending = NoClosure
  /\ Len(undoStack) < MaxUndo
  /\ \E ev \in Events :
       /\ Len(tree) + Len(EventNodes(ev)) <= MaxTree
       /\ \E updating \in Contexts(ev, editable), fault \in FaultsOf(ev, editable) :
            LET h == handleSmartPaste(ev, fault, editable, updating, selection)
            IN /\ pending' = (IF h.queued THEN h.closure ELSE NoClosure)
               /\ tree' = Transact(tree, h.inserted, editable, handlers["heading"])
               /\ undoStack' = PushHistory(undoStack, tree, tree')
               /\ last' = Observed("paste", h, ev, fault, updating, ~h.queued)
  /\ UNCHANGED <<editable, selection>>
  /\ UNCHANGED mountVars
  /\ UNCHANGED fnVars

(* The engine runs the queued update when the dispatching update function  *)
(* has returned, settles the transforms and commits.                       *)
Tick ==
  /\ pending # NoClosure
  /\ LET r == RunClosure(pending, selection)
     IN /\ tree' = Transact(tree, r.inserted, editable, handlers["heading"])
        /\ undoStack' = PushHistory(undoStack, tree, tree')
        /\ last' = [last EXCEPT !.done = TRUE, !.attached = r.inserted]
  /\ pending' = NoClosure
  /\ UNCHANGED <<editable, selection>>
  /\ UNCHANGED mountVars
  /\ UNCHANGED fnVars

(* UNDO_COMMAND: the previous state of the last commit is restored *)
Undo ==
  /\ pending = NoClosure
  /\ undoStack # <<>>
  /\ tree' = undoStack[Len(undoStack)]
  /\ undoStack' = SubSeq(undoStack, 1, Len(undoStack) - 1)
  /\ last' = IF last.op = "paste" THEN [last EXCEPT !.op = "undone"] ELSE Idle
  /\ UNCHANGED <<editable, selection, pending>>
  /\ UNCHANGED mountVars
  /\ UNCHANGED fnVars

----------------------------------------------------------------------------
(* Plugin registration: the useEffect of SmartPastePlugin,                 *)
(* HeadingPolicyPlugin and ListItemNormalizationPlugin, each with its own  *)
(* module-level registeredEditors                                          *)

(* Variant of the effect without the singleton guard: every mount         *)
(* registers a handler.                                                    *)
MountEffectNoGuard(p, i) ==
  /\ registered' = [registered EXCEPT ![p] = TRUE]
  /\ handlers' = [handlers EXCEPT ![p] = @ + 1]
  /\ inst' = [inst EXCEPT ![p][i] = "owner"]

(* The effect runs: with the editor in the registry it returns without a   *)
(* cleanup; otherwise it adds the editor, registers the handler and        *)
(* returns the cleanup.                                                    *)
MountEffect(p, i) ==
  IF registered[p]
  THEN /\ inst' = [inst EXCEPT ![p][i] = "skipped"]
       /\ UNCHANGED <<registered, handlers>>
  ELSE /\ registered' = [registered EXCEPT ![p] = TRUE]
       /\ handlers' = [handlers EXCEPT ![p] = @ + 1]
       /\ inst' = [inst EXCEPT ![p][i] = "owner"]

Mount ==
  /\ \E p \in Plugins, i \in Instances :
       /\ inst[p][i] = "unmounted"
       /\ MountEffect(p, i)
  /\ invocations' = 0
  /\ UNCHANGED pasteVars
  /\ UNCHANGED fnVars

(* Variant of the cleanup that unregisters the handler and leaves the      *)
(* editor in the registry                                                  *)
UnmountCleanupKeepingRegistry(p, i) ==
  IF inst[p][i] = "owner"
  THEN /\ handlers' = [handlers EXCEPT ![p] = @ - 1]
       /\ UNCHANGED registered
  ELSE UNCHANGED <<registered, handlers>>

(* The cleanup the effect returned, if any: unregister, leave the registry *)
UnmountCleanup(p, i) ==
  IF inst[p][i] = "owner"
  THEN /\ handlers' = [handlers EXCEPT ![p] = @ - 1]
       /\ registered' = [registered EXCEPT ![p] = FALSE]
  ELSE UNCHANGED <<registered, handlers>>

Unmount ==
  /\ \E p \in Plugins, i \in Instances :
       /\ inst[p][i] # "unmounted"
       /\ UnmountCleanup(p, i)
       /\ inst' = [inst EXCEPT ![p][i] = "unmounted"]
  /\ invocations' = 0
  /\ UNCHANGED pasteVars
  /\ UNCHANGED fnVars

(* A paste command reaches every registered paste handler in turn while    *)
(* each returns false (here: an event with no representation)              *)
DispatchToHandlers ==
  /\ invocations' = handlers["paste"]
  /\ UNCHANGED <<registered, handlers, inst>>
  /\ UNCHANGED pasteVars
  /\ UNCHANGED fnVars

NextMount ==
  \/ Mount
  \/ Unmount
  \/ DispatchToHandlers

SpecMount == Init /\ [][NextMount]_vars

Next ==
  \/ SetEditable
  \/ SetSelection
  \/ Construct
  \/ DispatchPaste
  \/ Tick
  \/ Undo

Spec == Init /\ [][Next]_vars

----------------------------------------------------------------------------
(* The payload probing of handleLexicalFastPath (141-186): the parsed      *)
(* application/x-lexical-editor payload is a JSON array, or a JSON object  *)
(* whose properties root, nodes, clipboard and editorState each are absent *)
(* or hold a value.                                                        *)

(* A JSON value, by what the probing looks at.  absent: undefined or null; *)
(* array: an array (list); rooted: an object whose root.children is the    *)
(* array (list); children: an object whose children is the array (list);   *)
(* object: an object with none of these; string: the serialized form of a  *)
(* rooted object; badstring: a string that is not JSON                     *)
Value(kind, list) == [kind |-> kind, list |-> list]

Undefined == Value("absent", <<>>)

(* A value in condition position: arrays, the empty one included, objects  *)
(* and non-empty strings are truthy                                        *)
Truthy(v) == v.kind # "absent"

ParsedPayload(isArray, items, root, nodes, clipboard, editorState) ==
  [isArray |-> isArray, items |-> items, root |-> root, nodes |-> nodes,
   clipboard |-> clipboard, editorState |-> editorState]

(* JSON.parse(parsedPayload.editorState) inside its own try (171-181): a   *)
(* string that does not parse leaves serializedNodes as it was             *)
EditorStateData(v) ==
  IF v.kind = "string" THEN Value("rooted", v.list)
  ELSE IF v.kind = "badstring" THEN Undefined
  ELSE v

(* The if/else-if chain of 156-182 and the list it leaves in               *)
(* serializedNodes, [] at the start                                        *)
serializedNodes(parsedPayload) ==
  IF Truthy(parsedPayload.root) /\ parsedPayload.root.kind = "children"
  THEN parsedPayload.root.list
  ELSE IF Truthy(parsedPayload.nodes)
  THEN parsedPayload.nodes.list
  ELSE IF parsedPayload.isArray
  THEN parsedPayload.items
  ELSE IF Truthy(parsedPayload.clipboard)
  THEN LET clipboardData == parsedPayload.clipboard
       IN IF clipboardData.kind = "rooted" THEN clipboardData.list
          ELSE IF clipboardData.kind = "array" THEN clipboardData.list
          ELSE <<>>
  ELSE IF Truthy(parsedPayload.editorState)
  THEN LET editorStateData == EditorStateData(parsedPayload.editorState)
       IN IF editorStateData.kind = "rooted" THEN editorStateData.list ELSE <<>>
  ELSE <<>>

(* The lists a container holds: none, or one node *)
NodeLists == {<<>>, OneDom}

RootValues ==
  {Undefined, Value("object", <<>>)} \cup { Value("children", l) : l \in NodeLists }

NodesValues == {Undefined} \cup { Value("array", l) : l \in NodeLists }

ClipboardValues ==
  {Undefined, Value("object", <<>>)}
  \cup { Value(k, l) : k \in {"rooted", "array"}, l \in NodeLists }

EditorStateValues ==
  {Undefined, Value("object", <<>>), Value("badstring", <<>>)}
  \cup { Value(k, l) : k \in {"rooted", "string"}, l \in NodeLists }

ParsedPayloads ==
  { ParsedPayload(TRUE, l, Undefined, Undefined, Undefined, Undefined) : l \in NodeLists }
  \cup { ParsedPayload(FALSE, <<>>, r, n, c, e)
         : r \in RootValues, n \in NodesValues,
           c \in ClipboardValues, e \in EditorStateValues }

(* The editor and a payload that parses *)
InitFastPath ==
  /\ InitEditor
  /\ probe \in { [op |-> "payload", payload |-> parsedPayload]
                  : parsedPayload \in ParsedPayloads }

(* handleLexicalFastPath(editor, lexicalData) on the payload, called       *)
(* outside an update or inside one                                         *)
CallLexicalFastPath ==
  /\ probe.op = "payload"
  /\ pending = NoClosure
  /\ \E updating \in BOOLEAN :
       LET parsedPayload == probe.payload
           nodes == serializedNodes(parsedPayload)
           lexical == LexicalRep(IF Len(nodes) = 0 THEN "noshape" ELSE "nodes", nodes)
           ev == PasteEvent(TRUE, lexical, BlankHtml, "")
           h == handleLexicalFastPath(lexical, NoFault, updating, selection)
       IN /\ pending' = (IF h.queued THEN h.closure ELSE NoClosure)
          /\ tree' = Transact(tree, h.inserted, editable, handlers["heading"])
          /\ undoStack' = PushHistory(undoStack, tree, tree')
          /\ last' = Observed("fastpath", h, ev, NoFault, updating, ~h.queued)
          /\ probe' = [op |-> "fastpath", payload |-> parsedPayload]
  /\ UNCHANGED <<editable, selection>>
  /\ UNCHANGED mountVars

NextFastPath ==
  \/ CallLexicalFastPath
  \/ SetSelection
  \/ Tick

SpecFastPath == InitFastPath /\ [][NextFastPath]_vars

----------------------------------------------------------------------------
(* handlePlaintextFallback on its own: the function is called with markup  *)
(* that tripped a guard and with or without the event's clipboardData      *)
(* (its third parameter is optional).                                      *)

(* Markup over the size limit or over the time limit, by the text left     *)
(* when its tags are stripped: none, white space, or text                  *)
FallbackHtmlReps ==
  { HtmlRep(FALSE, MAX_PASTE_SIZE + 1, MAX_SANITIZATION_TIME_MS, TRUE, OneDom, s)
    : s \in {"", " ", "s"} }
  \cup { HtmlRep(FALSE, MAX_PASTE_SIZE, MAX_SANITIZATION_TIME_MS + 1, TRUE, OneDom, s)
         : s \in {"", "s"} }

(* What insertText can do inside the closure: return, or throw *)
TextFaults == {NoFault, Fault("insert", 0)}

(* handlePlaintextFallback(editor, htmlContent, clipboardData), called     *)
(* outside an update or inside one; clipboardText is what                  *)
(* clipboardData.getData('text/plain') returns, '' without clipboardData   *)
CallPlaintextFallback ==
  /\ pending = NoClosure
  /\ Len(undoStack) < MaxUndo
  /\ Len(tree) < MaxTree
  /\ \E html \in FallbackHtmlReps, withClipboard \in BOOLEAN, text \in TextReps,
        updating \in BOOLEAN, fault \in TextFaults :
       LET clipboardText == IF withClipboard THEN text ELSE ""
           ev == PasteEvent(withClipboard, LexicalRep("blank", <<>>), html, clipboardText)
           h == handlePlaintextFallback(html, clipboardText, fault, updating,
                                        selection, html.ms > MAX_SANITIZATION_TIME_MS)
       IN /\ pending' = (IF h.queued THEN h.closure ELSE NoClosure)
          /\ tree' = Transact(tree, h.inserted, editable, handlers["heading"])
          /\ undoStack' = PushHistory(undoStack, tree, tree')
          /\ last' = Observed("fallback", h, ev, fault, updating, ~h.queued)
          /\ probe' = [op |-> "fallback", html |-> html, text |-> clipboardText]
  /\ UNCHANGED <<editable, selection>>
  /\ UNCHANGED mountVars

NextFallback ==
  \/ CallPlaintextFallback
  \/ SetSelection
  \/ Tick
  \/ Undo

SpecFallback == Init /\ [][NextFallback]_vars

----------------------------------------------------------------------------
(* formatHeading: commands/heading-commands.ts.  The toolbar calls it      *)
(* outside any update (FloatingToolbar.tsx:77), the shortcut plugin from a *)
(* command listener, inside the dispatching update.  A block type is the   *)
(* rank of the heading, 0 for 'paragraph'.  The document is a sequence of  *)
(* blocks and the anchor of the selection lies in one of them.             *)

paragraph == 0

ParagraphBlock(format, indent, direction, children) ==
  [type |-> "paragraph", tag |-> 0, format |-> format, indent |-> indent,
   direction |-> direction, children |-> children]

(* A list item, standing for the list it is the item of *)
ListItemBlock(children) ==
  [type |-> "listitem", tag |-> 0, format |-> 0, indent |-> 0,
   direction |-> "ltr", children |-> children]

isAllowedHeadingTag(tag) == tag \in ALLOWED_HEADING_TAGS

(* $setBlocksType(selection, createElement) on the block of the anchor:    *)
(* the created element takes the block's format and indent and replaces    *)
(* it, keeping its children.                                               *)
SetBlocksType(block, blockType) ==
  IF blockType = paragraph
  THEN ParagraphBlock(block.format, block.indent, block.direction, block.children)
  ELSE HeadingNode(blockType, block.format, block.indent, block.direction,
                   block.children)

Formatted(doc, success) == [doc |-> doc, success |-> success]

(* Variant of the closure without the list-item guard (37-45) *)
FormatClosureConvertingListItems(doc, anchor, hasSel, blockType, enableToggle, throws) ==
  IF ~hasSel THEN Formatted(doc, FALSE)
  ELSE LET block == doc[anchor]
           toggled == IF /\ enableToggle
                         /\ blockType # paragraph
                         /\ block.type = "heading"
                         /\ block.tag = blockType
                      THEN paragraph ELSE blockType
       IN IF toggled # paragraph /\ ~isAllowedHeadingTag(toggled)
          THEN Formatted(doc, FALSE)
          ELSE IF throws THEN Formatted(doc, FALSE)
          ELSE Formatted([doc EXCEPT ![anchor] = SetBlocksType(block, toggled)], TRUE)

(* The closure formatHeading passes to editor.update (30-74): the document *)
(* it leaves and the value success holds when it returns                   *)
FormatClosure(doc, anchor, hasSel, blockType, enableToggle, throws) ==
  IF ~hasSel THEN Formatted(doc, FALSE)
  ELSE LET block == doc[anchor]
           listItem == block.type = "listitem"
           toggled == IF /\ enableToggle
                         /\ blockType # paragraph
                         /\ block.type = "heading"
                         /\ block.tag = blockType
                      THEN paragraph ELSE blockType
       IN IF listItem /\ blockType # paragraph THEN Formatted(doc, FALSE)
          ELSE IF toggled # paragraph /\ ~isAllowedHeadingTag(toggled)
          THEN Formatted(doc, FALSE)
          ELSE IF throws THEN Formatted(doc, FALSE)
          ELSE Formatted([doc EXCEPT ![anchor] = SetBlocksType(block, toggled)], TRUE)

(* formatHeading(editor, blockType, options) (18-77): its return value,    *)
(* whether it passed a closure to editor.update, whether that closure is   *)
(* still queued, and the document the call leaves                          *)
formatHeading(doc, anchor, hasSel, isEditable, updating, blockType, enableToggle, throws) ==
  IF ~isEditable
  THEN [result |-> FALSE, opened |-> FALSE, queued |-> FALSE, doc |-> doc]
  ELSE IF updating
  THEN [result |-> FALSE, opened |-> TRUE, queued |-> TRUE, doc |-> doc]
  ELSE LET r == FormatClosure(doc, anchor, hasSel, blockType, enableToggle, throws)
       IN [result |-> r.success, opened |-> TRUE, queued |-> FALSE, doc |-> r.doc]

(* BlockType: 'paragraph' | 'h1' | 'h2' | 'h3' (types/editor-types.ts) *)
BlockTypes == {paragraph, 1, 2, 3}

FormatBlocks ==
  { ParagraphBlock(0, 0, "ltr", <<"P">>),
    ListItemBlock(<<"L">>),
    HeadingNode(1, 2, 2, "rtl", <<"B", "C">>) }

Caret(anchor) ==
  [op |-> "caret", anchor |-> anchor, blockType |-> paragraph,
   enableToggle |-> FALSE, throws |-> FALSE]

(* A document of two blocks, no history kept of it *)
InitFormat ==
  /\ tree \in { <<a, b>> : a, b \in FormatBlocks }
  /\ undoStack = <<>>
  /\ editable = TRUE
  /\ selection = FALSE
  /\ pending = NoClosure
  /\ last = Idle
  /\ registered = [p \in Plugins |-> TRUE]
  /\ handlers = [p \in Plugins |-> 1]
  /\ inst = [p \in Plugins |-> [i \in Instances |-> IF i = 1 THEN "owner" ELSE "unmounted"]]
  /\ invocations = 0
  /\ probe = Caret(1)

(* The user places the caret in a block, or the editor loses it *)
PlaceCaret ==
  /\ pending = NoClosure
  /\ \E hasSel \in BOOLEAN, anchor \in 1..Len(tree) :
       /\ selection' = hasSel
       /\ probe' = Caret(anchor)
  /\ last' = Idle
  /\ UNCHANGED <<tree, undoStack, editable, pending>>
  /\ UNCHANGED mountVars

(* formatHeading(editor, blockType, { enableToggle }) is called *)
CallFormatHeading ==
  /\ pending = NoClosure
  /\ \E blockType \in BlockTypes, enableToggle \in BOOLEAN,
        updating \in BOOLEAN, throws \in BOOLEAN :
       LET h == formatHeading(tree, probe.anchor, selection, editable, updating,
                              blockType, enableToggle, throws)
       IN /\ pending' = (IF h.queued THEN Closure("format", <<>>, NoFault) ELSE NoClosure)
          /\ tree' = Settle(h.doc, editable)
          /\ last' = [Idle EXCEPT !.op = "format", !.result = h.result,
                                  !.pre = tree, !.preUndo = Len(undoStack),
                                  !.sel = selection, !.updating = updating,
                                  !.done = ~h.queued, !.opened = h.opened,
                                  !.fault = IF throws THEN "throws" ELSE "none"]
          /\ probe' = [probe EXCEPT !.op = "format", !.blockType = blockType,
                                    !.enableToggle = enableToggle, !.throws = throws]
  /\ UNCHANGED <<undoStack, editable, selection>>
  /\ UNCHANGED mountVars

(* The engine runs the queued closure of formatHeading and commits *)
FormatTick ==
  /\ pending = Closure("format", <<>>, NoFault)
  /\ LET r == FormatClosure(tree, probe.anchor, selection, probe.blockType,
                            probe.enableToggle, probe.throws)
     IN /\ tree' = Settle(r.doc, editable)
        /\ last' = [last EXCEPT !.done = TRUE]
  /\ pending' = NoClosure
  /\ UNCHANGED <<undoStack, editable, selection>>
  /\ UNCHANGED mountVars
  /\ UNCHANGED fnVars

NextFormat ==
  \/ PlaceCaret
  \/ SetEditable
  \/ CallFormatHeading
  \/ FormatTick

SpecFormat == InitFormat /\ [][NextFormat]_vars

----------------------------------------------------------------------------
(* Settle cycles of the heading transform on a document that holds one     *)
(* heading of any rank: an update marks the heading dirty, the engine runs *)
(* the registered transforms and commits.                                  *)

MaxRank == 7       \* ranks of the headings the transform is invoked on

HeadingInputs ==
  { HeadingNode(tag, format, indent, direction, children) :
      tag \in 1..MaxRank, format \in {0, 2}, indent \in {0, 2},
      direction \in {"ltr", "rtl"}, children \in {<<"A">>, <<"B", "C">>} }

InitTransform ==
  /\ tree \in { <<h>> : h \in HeadingInputs }
  /\ undoStack = <<>>
  /\ editable \in BOOLEAN
  /\ selection = FALSE
  /\ pending = NoClosure
  /\ last = Idle
  /\ registered = [p \in Plugins |-> TRUE]
  /\ handlers = [p \in Plugins |-> 1]
  /\ inst = [p \in Plugins |-> [i \in Instances |-> IF i = 1 THEN "owner" ELSE "unmounted"]]
  /\ invocations = 0
  /\ probe = NoProbe

(* An update that marks every heading dirty (node.markDirty()) *)
SettleCycle ==
  /\ pending = NoClosure
  /\ Len(undoStack) < MaxUndo
  /\ tree' = Transact(<<>>, tree, editable, handlers["heading"])
  /\ undoStack' = PushHistory(undoStack, tree, tree')
  /\ last' = [Idle EXCEPT !.op = "settle", !.pre = tree,
                           !.preUndo = Len(undoStack), !.nodes = tree]
  /\ UNCHANGED <<editable, selection, pending>>
  /\ UNCHANGED mountVars
  /\ UNCHANGED fnVars

NextTransform ==
  \/ SettleCycle
  \/ SetEditable

SpecTransform == InitTransform /\ [][NextTransform]_vars

----------------------------------------------------------------------------
(* The sanitizer: sanitizeHTML, its DOMPurify configuration and its hooks  *)
(* (sanitization-config).  A string is the sequence of its characters, a   *)
(* fragment the sequence of its top-level nodes.                           *)

MaxDepth == 2      \* element nesting of the markup handed to the sanitizer

Whitespace == {" ", "\t"}

ToLowerChar(c) ==
  CASE c = "J" -> "j" [] c = "S" -> "s" [] c = "H" -> "h"
    [] c = "T" -> "t" [] c = "P" -> "p" [] OTHER -> c

(* String.prototype.toLowerCase *)
ToLowerCase(str) == [i \in 1..Len(str) |-> ToLowerChar(str[i])]

(* String.prototype.startsWith *)
StartsWith(str, prefix) ==
  /\ Len(prefix) <= Len(str)
  /\ SubSeq(str, 1, Len(prefix)) = prefix

(* String.prototype.includes, for one character *)
Includes(str, c) == \E i \in 1..Len(str) : str[i] = c

RECURSIVE TrimStart(_)
TrimStart(str) ==
  IF str # <<>> /\ Head(str) \in Whitespace THEN TrimStart(Tail(str)) ELSE str

RECURSIVE TrimEnd(_)
TrimEnd(str) ==
  IF str # <<>> /\ str[Len(str)] \in Whitespace
  THEN TrimEnd(SubSeq(str, 1, Len(str) - 1)) ELSE str

(* String.prototype.trim *)
TrimString(str) == TrimEnd(TrimStart(str))

(* stringReplace(value, ATTR_WHITESPACE, '') of the library *)
RemoveWhitespace(str) == SelectSeq(str, LAMBDA c : c \notin Whitespace)

ALLOWED_SCHEMES == { <<"h", "t", "t", "p">>, <<"h", "t", "t", "p", "s">>, <<"m", "a", "i", "l", "t", "o">> }

(* The library tests an attribute value against the configured pattern     *)
(* only; this variant is the pattern the hook's comments describe, which   *)
(* refuses the script and data schemes and lets every other value pass.    *)
ScriptSchemesRefused(value) ==
  LET v == ToLowerCase(value)
  IN ~(\/ StartsWith(v, <<"j", "a", "v", "a", "s", "c", "r", "i", "p", "t">> \o <<":">>)
       \/ StartsWith(v, <<"d", "a", "t", "a">> \o <<":">>)
       \/ StartsWith(v, <<"v", "b", "s", "c", "r", "i", "p", "t">> \o <<":">>))

(* ALLOWED_URI_REGEXP.test(value): /^(?:https?:|mailto:|#)/i *)
ALLOWED_URI_REGEXP(value) ==
  LET v == ToLowerCase(value)
  IN \/ StartsWith(v, <<"h", "t", "t", "p">> \o <<":">>)
     \/ StartsWith(v, <<"h", "t", "t", "p", "s">> \o <<":">>)
     \/ StartsWith(v, <<"m", "a", "i", "l", "t", "o">> \o <<":">>)
     \/ StartsWith(v, <<"#">>)

FORBID_TAGS ==
  {"script", "object", "embed", "iframe", "form", "input", "textarea", "select",
   "svg", "math", "style", "link", "meta", "title", "head", "body", "html",
   "applet", "bgsound", "base", "basefont", "frame", "frameset", "noframes"}

(* The library's default FORBID_CONTENTS, which the configuration leaves   *)
(* as it is: the elements whose content goes with them when removed.       *)
FORBID_CONTENTS ==
  {"annotation-xml", "audio", "colgroup", "desc", "foreignobject", "head",
   "iframe", "math", "mi", "mn", "mo", "ms", "mtext", "noembed", "noframes",
   "noscript", "plaintext", "script", "style", "svg", "template", "thead",
   "title", "video", "xmp"}

(* The library's default KEEP_CONTENT, which the configuration leaves set *)
KEEP_CONTENT == TRUE

Absent == <<"absent">>

(* The attribute names of the model: the four of ALLOWED_ATTRIBUTES.a, and *)
(* one styling, two identifying, one event-handler and one data attribute  *)
AttrNames ==
  {"href", "rel", "target", "title", "style", "id", "class", "onclick", "data-x"}

NoAttrs == [n \in AttrNames |-> Absent]

Attrs(href, rel, target) ==
  [NoAttrs EXCEPT !["href"] = href, !["rel"] = rel, !["target"] = target]

(* ALLOWED_ATTR: Object.values(ALLOWED_ATTRIBUTES).flat(), one list for     *)
(* every tag.  The html profile (USE_PROFILES) adds names to it, none of   *)
(* them among the names of the model that this list does not hold.         *)
ALLOWED_ATTR == {"href", "title", "target", "rel"}

FORBID_ATTR ==
  {"style", "class", "id", "onclick", "onload", "onerror", "onmouseover",
   "onfocus", "onblur", "onchange", "on*", "srcset", "sizes", "xlink:href",
   "xmlns", "data-*", "contenteditable", "draggable", "dropzone", "hidden",
   "spellcheck", "translate"}

(* The library's URI_SAFE_ATTRIBUTES: values it does not test as a URI *)
URI_SAFE_ATTRIBUTES ==
  {"alt", "class", "for", "id", "label", "name", "pattern", "placeholder",
   "role", "summary", "title", "value", "style", "xmlns"}

(* The library's ALLOW_DATA_ATTR, which the configuration leaves set, and  *)
(* the names its DATA_ATTR pattern /^data-[\-\w.]+$/ matches               *)
ALLOW_DATA_ATTR == TRUE

DATA_ATTR(name) == name \in {"data-x"}

(* attr.name.startsWith('data-') || attr.name.startsWith('on') *)
StartsWithDataOrOn(name) == name \in {"data-x", "onclick"}

(* dangerousAttrs of the second hook (141) *)
dangerousAttrs == {"onclick", "onmouseover", "style", "class", "id"}

Element(tag, attrs, kids) ==
  [node |-> "element", tag |-> tag, attrs |-> attrs, kids |-> kids]

TextNode == [node |-> "text", tag |-> "#text", attrs |-> NoAttrs, kids |-> <<>>]

REL_ENFORCED == <<"noopener noreferrer ugc">>

TARGET_ENFORCED == <<"_blank">>

(* The uponSanitizeAttribute hook (107-130): what it leaves in hookEvent.  *)
(* It assigns false to forceKeepAttr and never touches keepAttr.           *)
UponSanitizeAttribute(attrName, attrValue) ==
  LET url == ToLowerCase(TrimString(attrValue))
      hasAllowedScheme == \E scheme \in ALLOWED_SCHEMES : StartsWith(url, scheme \o <<":">>)
      isRelativeUrl == \/ StartsWith(url, <<"/">>)
                       \/ StartsWith(url, <<".", "/">>)
                       \/ StartsWith(url, <<".", ".", "/">>)
                       \/ StartsWith(url, <<"#">>)
      blocked == /\ attrName = "href"
                 /\ attrValue # <<>>
                 /\ \/ StartsWith(url, <<"j", "a", "v", "a", "s", "c", "r", "i", "p", "t">> \o <<":">>)
                    \/ StartsWith(url, <<"d", "a", "t", "a">> \o <<":">>)
                    \/ StartsWith(url, <<"v", "b", "s", "c", "r", "i", "p", "t">> \o <<":">>)
                    \/ (Includes(url, ":") /\ ~hasAllowedScheme /\ ~isRelativeUrl)
  IN [keepAttr |-> TRUE,
      forceKeepAttr |-> IF blocked THEN "false" ELSE "undefined"]

(* The library's test of one attribute: a data attribute whose name is    *)
(* not itself in FORBID_ATTR passes; a name outside ALLOWED_ATTR or inside *)
(* FORBID_ATTR fails; the value of a URI-safe attribute is not examined;   *)
(* any other non-empty value passes only if the configured pattern matches *)
(* it with its whitespace removed.                                         *)
IsValidAttribute(attrName, value) ==
  IF ALLOW_DATA_ATTR /\ attrName \notin FORBID_ATTR /\ DATA_ATTR(attrName) THEN TRUE
  ELSE IF attrName \notin ALLOWED_ATTR \/ attrName \in FORBID_ATTR THEN FALSE
  ELSE IF attrName \in URI_SAFE_ATTRIBUTES THEN TRUE
  ELSE IF ALLOWED_URI_REGEXP(RemoveWhitespace(value)) THEN TRUE
  ELSE value = <<>>

(* The library's attribute loop for one attribute of an element: the hook  *)
(* runs, a truthy forceKeepAttr keeps the attribute, a false keepAttr      *)
(* drops it; otherwise the attribute stays only if it is valid.            *)
SanitizeAttribute(attrName, attrValue) ==
  IF attrValue = Absent THEN Absent
  ELSE LET value == TrimString(attrValue)
           hookEvent == UponSanitizeAttribute(attrName, value)
       IN IF hookEvent.forceKeepAttr = "true" THEN value
          ELSE IF ~hookEvent.keepAttr THEN Absent
          ELSE IF IsValidAttribute(attrName, value) THEN value
          ELSE Absent

(* Variant of the second hook that enforces rel and target only on an      *)
(* anchor whose href was kept.                                             *)
AfterSanitizeAttributesIfHref(tag, attrs) ==
  [n \in AttrNames |->
     IF tag = "a" /\ attrs.href # Absent /\ n = "rel" THEN REL_ENFORCED
     ELSE IF tag = "a" /\ attrs.href # Absent /\ n = "target" THEN TARGET_ENFORCED
     ELSE IF tag = "a" /\ n \in dangerousAttrs THEN Absent
     ELSE IF StartsWithDataOrOn(n) THEN Absent
     ELSE attrs[n]]

(* The afterSanitizeAttributes hook (133-158): rel and target are set on   *)
(* an anchor and its dangerousAttrs removed; every element loses its       *)
(* data-* and on* attributes.                                              *)
AfterSanitizeAttributes(tag, attrs) ==
  [n \in AttrNames |->
     IF tag = "a" /\ n = "rel" THEN REL_ENFORCED
     ELSE IF tag = "a" /\ n = "target" THEN TARGET_ENFORCED
     ELSE IF tag = "a" /\ n \in dangerousAttrs THEN Absent
     ELSE IF StartsWithDataOrOn(n) THEN Absent
     ELSE attrs[n]]

SanitizeAttributes(tag, attrs) ==
  AfterSanitizeAttributes(tag, [n \in AttrNames |-> SanitizeAttribute(n, attrs[n])])

(* The library's walk over the fragment: a forbidden element is removed;   *)
(* with KEEP_CONTENT, and unless its tag is in FORBID_CONTENTS, its        *)
(* children take its place and are walked in turn.                         *)
RECURSIVE SanitizeNodes(_)
SanitizeNodes(nodes) ==
  IF nodes = <<>> THEN <<>>
  ELSE LET n == Head(nodes)
           rest == SanitizeNodes(Tail(nodes))
       IN IF n.node = "text" THEN <<n>> \o rest
          ELSE IF n.tag \in FORBID_TAGS
          THEN IF KEEP_CONTENT /\ n.tag \notin FORBID_CONTENTS
               THEN SanitizeNodes(n.kids) \o rest
               ELSE rest
          ELSE <<Element(n.tag, SanitizeAttributes(n.tag, n.attrs),
                         SanitizeNodes(n.kids))>> \o rest

(* A JavaScript value: a string, given by the markup it holds, or a value  *)
(* of another type                                                         *)
JsValue(type, str) == [type |-> type, str |-> str]

typeof(v) == v.type

(* !v *)
Not(v) == typeof(v) \in {"undefined", "null"} \/ (typeof(v) = "string" /\ v.str = <<>>)

(* How a call ends: by a throw, or by returning a value *)
Completion(threw, value) == [threw |-> threw, value |-> value]

(* DOMPurify.sanitize(htmlContent, SANITIZATION_CONFIG): the walk over the *)
(* fragment, serialized; or, as the faults sanitizeHTML provides for, a    *)
(* throw, or a result that is not a string.                                *)
DOMPurifySanitize(str, purifier) ==
  IF purifier = "throws" THEN Completion(TRUE, JsValue("undefined", <<>>))
  ELSE IF purifier = "nonstring" THEN Completion(FALSE, JsValue("object", SanitizeNodes(str)))
  ELSE Completion(FALSE, JsValue("string", SanitizeNodes(str)))

(* Variant of sanitizeHTML that hands the input back when the library      *)
(* fails on it.                                                            *)
sanitizeHTMLReturningInput(htmlContent, purifier) ==
  IF typeof(htmlContent) # "string" THEN <<>>
  ELSE LET sanitized == DOMPurifySanitize(htmlContent.str, purifier)
       IN IF sanitized.threw THEN htmlContent.str
          ELSE IF typeof(sanitized.value) # "string" THEN htmlContent.str
          ELSE sanitized.value.str

(* sanitizeHTML (172-191): the string it returns *)
sanitizeHTML(htmlContent, purifier) ==
  IF Not(htmlContent) \/ typeof(htmlContent) # "string" THEN <<>>
  ELSE LET sanitized == DOMPurifySanitize(htmlContent.str, purifier)
       IN IF sanitized.threw THEN <<>>
          ELSE IF typeof(sanitized.value) # "string" THEN <<>>
          ELSE sanitized.value.str

(* Markup handed to the sanitizer *)
Hrefs ==
  { Absent, <<>>,
    <<"h", "t", "t", "p", "s", ":", "/", "/", "a">>,
    <<"H", "T", "T", "P", ":", "/", "/", "a">>,
    <<"m", "a", "i", "l", "t", "o", ":", "a">>,
    <<"#", "a">>,
    <<"/", "a">>,
    <<".", "/", "a">>,
    <<".", ".", "/", "a">>,
    <<"a">>,
    <<"j", "a", "v", "a", "s", "c", "r", "i", "p", "t", ":", "a">>,
    <<" ", "J", "a", "v", "a", "S", "c", "r", "i", "p", "t", ":", "a">>,
    <<"j", "a", "v", "a", "\t", "s", "c", "r", "i", "p", "t", ":", "a">>,
    <<"d", "a", "t", "a", ":", "a">>,
    <<"v", "b", "s", "c", "r", "i", "p", "t", ":", "a">>,
    <<"f", "t", "p", ":", "/", "/", "a">> }

AnchorInputs ==
  { <<Element("a", Attrs(h, r, t), <<TextNode>>)>> :
      h \in Hrefs, r \in {Absent, <<"x">>}, t \in {Absent, <<"_", "s">>} }

TreeTags == {"p", "a", "script", "form"}

DefaultAttrs(tag) ==
  IF tag = "a" THEN Attrs(<<"h", "t", "t", "p", "s">> \o <<":", "a">>, Absent, Absent) ELSE NoAttrs

RECURSIVE Trees(_)
Trees(depth) ==
  IF depth = 0 THEN {TextNode}
  ELSE LET below == Trees(depth - 1)
       IN below \cup { Element(tag, DefaultAttrs(tag), kids) :
                         tag \in TreeTags, kids \in {<<>>} \cup { <<k>> : k \in below } }

TreeInputs == { <<t>> : t \in Trees(MaxDepth) } \cup { <<t, TextNode>> : t \in Trees(1) }

(* A paragraph or an anchor carrying any of the attributes of the model *)
AttributeValues(n) ==
  IF n = "href" THEN {Absent, <<"h", "t", "t", "p", "s">> \o <<":", "a">>}
  ELSE IF n \in {"rel", "target"} THEN {Absent}
  ELSE {Absent, <<"v">>}

AttributeInputs ==
  { <<Element(tag, attrs, <<TextNode>>)>> :
      tag \in {"p", "a"},
      attrs \in { f \in [AttrNames -> {Absent, <<"v">>, <<"h", "t", "t", "p", "s">> \o <<":", "a">>}] :
                    \A n \in AttrNames : f[n] \in AttributeValues(n) } }

HtmlInputs == {<<>>} \cup AnchorInputs \cup TreeInputs \cup AttributeInputs

(* Values that are not strings, and the ways the library can fail on one *)
NonStringTypes == {"undefined", "null", "object"}

PurifierFaults == {"throws", "nonstring"}

Call(type, html, purifier) ==
  [op |-> "markup", type |-> type, html |-> html, purifier |-> purifier, out |-> <<>>]

InitSanitize ==
  /\ InitEditor
  /\ probe \in { Call("string", h, "returns") : h \in HtmlInputs }
              \cup { Call(t, <<>>, "returns") : t \in NonStringTypes }
              \cup { Call("string", h, f) : h \in AnchorInputs, f \in PurifierFaults }

(* sanitizeHTML is called on the value *)
Sanitize ==
  /\ probe.op = "markup"
  /\ probe' = [probe EXCEPT !.op = "sanitized",
                            !.out = sanitizeHTML(JsValue(probe.type, probe.html),
                                                 probe.purifier)]
  /\ UNCHANGED pasteVars
  /\ UNCHANGED mountVars

(* The sanitized markup is handed to the sanitizer again *)
Resanitize ==
  /\ probe.op = "sanitized"
  /\ probe.out # probe.html
  /\ probe' = Call("string", probe.out, "returns")
  /\ UNCHANGED pasteVars
  /\ UNCHANGED mountVars

NextSanitize ==
  \/ Sanitize
  \/ Resanitize

SpecSanitize == InitSanitize /\ [][NextSanitize]_vars

----------------------------------------------------------------------------
(* List-prefix normalization: utils/list-normalization and the transform   *)
(* of ListItemNormalizationPlugin.  U+00A0 is written "nbsp".              *)

MaxText == 5       \* characters of a text run handed to stripListPrefix

(* [-*...] of BULLET_PREFIXES: the hyphen, the asterisk and the bullet,    *)
(* white-bullet, small-square and dash glyphs (written by name)            *)
UnorderedGlyphs == {"-", "*", "bullet", "whitebullet", "smallsquare", "endash", "emdash"}

(* \d *)
DigitChars == {"0", "1", "2", "3", "4", "5", "6", "7", "8", "9"}

(* [a-zA-Z] *)
LetterChars ==
  {"a", "b", "c", "d", "e", "f", "g", "h", "i", "j", "k", "l",
   "m", "n", "o", "p", "q", "r", "s", "t", "u", "v", "w", "x", "y", "z",
   "A", "B", "C", "D", "E", "F", "G", "H", "I", "J", "K", "L",
   "M", "N", "O", "P", "Q", "R", "S", "T", "U", "V", "W", "X", "Y", "Z"}

(* [.)] *)
MarkerClose == {".", ")"}

(* \s, which in this engine holds U+00A0 as well *)
RegexSpace == {" ", "\t", "\n", "nbsp"}

(* normalizeNBSP (29-31): every U+00A0 of the text becomes a space *)
normalizeNBSP(text) ==
  [i \in 1..Len(text) |-> IF text[i] = "nbsp" THEN " " ELSE text[i]]

(* Length of the longest run of characters of class, from position from *)
RECURSIVE RunLength(_, _, _)
RunLength(text, from, class) ==
  IF from <= Len(text) /\ text[from] \in class
  THEN 1 + RunLength(text, from + 1, class)
  ELSE 0

(* Variant of the pattern without its trailing \s+: a marker matches with  *)
(* or without white space after it                                         *)
MarkerMatchLength(text) ==
  LET digits == RunLength(text, 1, DigitChars)
  IN IF text # <<>> /\ text[1] \in UnorderedGlyphs THEN 1
     ELSE IF digits >= 1 /\ digits < Len(text) /\ text[digits + 1] \in MarkerClose
     THEN digits + 1
     ELSE IF Len(text) >= 2 /\ text[1] \in LetterChars /\ text[2] \in MarkerClose
     THEN 2
     ELSE 0

(* BULLET_PREFIXES.combined (21):                                          *)
(* /^([-*...]|\d+[.)]|[a-zA-Z][.)])\s+/ -- the length of its match at the  *)
(* start of text, 0 when it does not match                                 *)
CombinedMatchLength(text) ==
  LET digits == RunLength(text, 1, DigitChars)
      marker == IF text # <<>> /\ text[1] \in UnorderedGlyphs THEN 1
                ELSE IF digits >= 1 /\ digits < Len(text) /\ text[digits + 1] \in MarkerClose
                THEN digits + 1
                ELSE IF Len(text) >= 2 /\ text[1] \in LetterChars /\ text[2] \in MarkerClose
                THEN 2
                ELSE 0
      spaces == RunLength(text, marker + 1, RegexSpace)
  IN IF marker > 0 /\ spaces >= 1 THEN marker + spaces ELSE 0

(* Variant that applies the pattern until it no longer matches *)
RECURSIVE stripEveryListPrefix(_)
stripEveryListPrefix(text) ==
  LET normalized == normalizeNBSP(text)
      matched == CombinedMatchLength(normalized)
  IN IF matched = 0 THEN normalized
     ELSE stripEveryListPrefix(SubSeq(normalized, matched + 1, Len(normalized)))

(* stripListPrefix (38-44): normalized.replace(BULLET_PREFIXES.combined, '') *)
stripListPrefix(text) ==
  LET normalized == normalizeNBSP(text)
  IN SubSeq(normalized, CombinedMatchLength(normalized) + 1, Len(normalized))

(* hasListPrefix (50-53) *)
hasListPrefix(text) == CombinedMatchLength(normalizeNBSP(text)) > 0

(* A text node of a list item, in document order; code: it has the code    *)
(* format or stands inside a code node                                     *)
TextRun(text, code) == [text |-> text, code |-> code]

(* text.trim().length > 0 *)
HasContent(text) == \E i \in 1..Len(text) : text[i] \notin RegexSpace

(* Variant of the search that returns the last text node with content *)
findLastTextNode(runs) ==
  IF \E i \in 1..Len(runs) : HasContent(runs[i].text)
  THEN CHOOSE i \in 1..Len(runs) :
         /\ HasContent(runs[i].text)
         /\ \A j \in (i + 1)..Len(runs) : ~HasContent(runs[j].text)
  ELSE 0

(* findFirstTextNode (88-120): index of the first text node with content,  *)
(* 0 for null                                                              *)
findFirstTextNode(runs) ==
  IF \E i \in 1..Len(runs) : HasContent(runs[i].text)
  THEN CHOOSE i \in 1..Len(runs) :
         /\ HasContent(runs[i].text)
         /\ \A j \in 1..(i - 1) : ~HasContent(runs[j].text)
  ELSE 0

(* shouldSkipPrefixStripping (36-55) *)
shouldSkipPrefixStripping(run) == run.code

(* Variant of the transform without the editable guard *)
ListItemTransformUnguarded(runs, isEditable) ==
  LET textNode == findFirstTextNode(runs)
  IN IF textNode = 0 THEN runs
     ELSE IF shouldSkipPrefixStripping(runs[textNode]) THEN runs
     ELSE [runs EXCEPT ![textNode].text = stripListPrefix(runs[textNode].text)]

(* Variant of the transform without the code-context check *)
ListItemTransformInCode(runs, isEditable) ==
  IF ~isEditable THEN runs
  ELSE LET textNode == findFirstTextNode(runs)
       IN IF textNode = 0 THEN runs
          ELSE [runs EXCEPT ![textNode].text = stripListPrefix(runs[textNode].text)]

(* The ListItemNode transform (79-153), one invocation *)
ListItemTransform(runs, isEditable) ==
  IF ~isEditable THEN runs
  ELSE LET textNode == findFirstTextNode(runs)
       IN IF textNode = 0 THEN runs
          ELSE IF shouldSkipPrefixStripping(runs[textNode]) THEN runs
          ELSE LET text == runs[textNode].text
                   cleanedText == stripListPrefix(text)
               IN IF text # cleanedText
                  THEN [runs EXCEPT ![textNode].text = cleanedText]
                  ELSE runs

(* Texts and list items handed to the functions *)
TextChars == {"-", "1", "a", ".", " ", "nbsp"}

Texts == UNION { [1..k -> TextChars] : k \in 0..MaxText }

Leads == {"none", "blank", "code", "incode"}

ListItemOf(lead, text) ==
  CASE lead = "none" -> <<TextRun(text, FALSE)>>
    [] lead = "blank" -> <<TextRun(<<" ">>, FALSE), TextRun(text, FALSE)>>
    [] lead = "code" -> <<TextRun(<<"a">>, TRUE), TextRun(text, FALSE)>>
    [] lead = "incode" -> <<TextRun(text, TRUE)>>

InitList ==
  /\ InitEditor
  /\ probe \in { [op |-> "text", text |-> t, runs |-> <<>>, editable |-> TRUE,
                  out |-> t, outRuns |-> <<>>, again |-> <<>>] : t \in Texts }

(* stripListPrefix is called on the text *)
StripPrefix ==
  /\ probe.op = "text"
  /\ probe' = [probe EXCEPT !.op = "stripped", !.out = stripListPrefix(probe.text)]
  /\ UNCHANGED pasteVars
  /\ UNCHANGED mountVars

(* The list-item transform is invoked on a list item holding the text *)
NormalizeListItem ==
  /\ probe.op = "text"
  /\ \E lead \in Leads, isEditable \in BOOLEAN :
       LET runs == ListItemOf(lead, probe.text)
       IN probe' = [probe EXCEPT !.op = "normalized", !.runs = runs,
                                 !.editable = isEditable,
                                 !.outRuns = ListItemTransform(runs, isEditable)]
  /\ UNCHANGED pasteVars
  /\ UNCHANGED mountVars

(* The list item is marked dirty again in a later update and the transform *)
(* is invoked on it once more (registerNodeTransform, 79)                  *)
RenormalizeListItem ==
  /\ probe.op = "normalized"
  /\ probe' = [probe EXCEPT !.op = "renormalized",
                            !.again = ListItemTransform(probe.outRuns, probe.editable)]
  /\ UNCHANGED pasteVars
  /\ UNCHANGED mountVars

NextList ==
  \/ StripPrefix
  \/ NormalizeListItem
  \/ RenormalizeListItem

SpecList == InitList /\ [][NextList]_vars

----------------------------------------------------------------------------
(* isLikelyListItem (60-84) next to hasListPrefix                          *)

(* String.prototype.trim: white space, U+00A0 included, off both ends *)
RECURSIVE JsTrimStart(_)
JsTrimStart(text) ==
  IF text # <<>> /\ Head(text) \in RegexSpace THEN JsTrimStart(Tail(text)) ELSE text

RECURSIVE JsTrimEnd(_)
JsTrimEnd(text) ==
  IF text # <<>> /\ text[Len(text)] \in RegexSpace
  THEN JsTrimEnd(SubSeq(text, 1, Len(text) - 1))
  ELSE text

JsTrim(text) == JsTrimEnd(JsTrimStart(text))

(* [-...] of the dash check (70, 72): hyphen, en dash, em dash *)
DashGlyphs == {"-", "endash", "emdash"}

(* \w *)
WordChars == LetterChars \cup DigitChars \cup {"_"}

(* The pattern of line 79: three backticks, or one to six # and white    *)
(* space, or > and white space, at the start                              *)
LooksLikeMarkdown(afterPrefix) ==
  LET hashes == RunLength(afterPrefix, 1, {"#"})
  IN \/ Len(afterPrefix) >= 3 /\ \A i \in 1..3 : afterPrefix[i] = "backtick"
     \/ /\ hashes \in 1..6
        /\ hashes < Len(afterPrefix)
        /\ afterPrefix[hashes + 1] \in RegexSpace
     \/ /\ Len(afterPrefix) >= 2
        /\ afterPrefix[1] = ">"
        /\ afterPrefix[2] \in RegexSpace

(* isLikelyListItem (60-84) *)
isLikelyListItem(text) ==
  LET normalized == normalizeNBSP(JsTrim(text))
      matched == CombinedMatchLength(normalized)
  IN IF matched = 0 THEN FALSE
     ELSE IF normalized[1] \in DashGlyphs /\ normalized[2] \in RegexSpace
     THEN matched < Len(normalized) /\ normalized[matched + 1] \in WordChars
     ELSE ~LooksLikeMarkdown(SubSeq(normalized, matched + 1, Len(normalized)))

(* Lines handed to the predicates *)
LineChars == {"-", "emdash", "1", ".", " ", "a", "#", ">", "backtick"}

Lines == UNION { [1..k -> LineChars] : k \in 0..MaxText }

InitLikely ==
  /\ InitEditor
  /\ probe \in { [op |-> "line", text |-> t, has |-> FALSE, likely |-> FALSE]
                  : t \in Lines }

(* Both predicates are called on the line *)
ClassifyLine ==
  /\ probe.op = "line"
  /\ probe' = [probe EXCEPT !.op = "classified",
                            !.has = hasListPrefix(probe.text),
                            !.likely = isLikelyListItem(probe.text)]
  /\ UNCHANGED pasteVars
  /\ UNCHANGED mountVars

NextLikely == ClassifyLine

SpecLikely == InitLikely /\ [][NextLikely]_vars

----------------------------------------------------------------------------
(* exceedsSizeLimit on its own (part_002:202-204).  A markup string is     *)
(* given by how many of its characters take one, two and three bytes in    *)
(* UTF-8 and how many surrogate pairs it holds (two UTF-16 code units,     *)
(* four bytes).                                                            *)
Content(one, two, three, pairs) ==
  [one |-> one, two |-> two, three |-> three, pairs |-> pairs]

(* Variant of the size that counts UTF-16 code units (htmlContent.length) *)
StringLength(content) ==
  content.one + content.two + content.three + 2 * content.pairs

(* new Blob([htmlContent], {type: 'text/html'}).size: the UTF-8 encoding *)
BlobSize(content) ==
  content.one + 2 * content.two + 3 * content.three + 4 * content.pairs

(* Markup around the limit: all ASCII, and ASCII next to a block of wider  *)
(* characters                                                              *)
Contents ==
  { Content(one, two, three, pairs) :
      one \in {0, 1} \cup ((MAX_PASTE_SIZE - 2)..(MAX_PASTE_SIZE + 1)),
      two \in {0, 1, MAX_PASTE_SIZE \div 2},
      three \in {0, 1, MAX_PASTE_SIZE \div 3},
      pairs \in {0, 1, MAX_PASTE_SIZE \div 4} }

InitSize ==
  /\ InitEditor
  /\ probe \in { [op |-> "content", content |-> c, exceeds |-> FALSE] : c \in Contents }

(* exceedsSizeLimit(htmlContent) *)
CallExceedsSizeLimit ==
  /\ probe.op = "content"
  /\ probe' = [probe EXCEPT
                 !.op = "sized",
                 !.exceeds = exceedsSizeLimit(
                               HtmlRep(FALSE, BlobSize(probe.content), 0, TRUE, <<>>, ""))]
  /\ UNCHANGED pasteVars
  /\ UNCHANGED mountVars

NextSize == CallExceedsSizeLimit

SpecSize == InitSize /\ [][NextSize]_vars

----------------------------------------------------------------------------
(* The settle cycle of one update, step by step.  The engine keeps the set *)
(* of nodes marked dirty on purpose (created or written in the update) and *)
(* invokes the transform registered for a node's class on each of them; a  *)
(* node a transform creates is dirty in turn, a list item whose text node  *)
(* was written is dirty only as the parent of a dirty leaf and is not      *)
(* handed to its transform again.  No transform is registered on text      *)
(* nodes.  The cycle ends when no node is left dirty on purpose.           *)

(* The blocks of the tree the cycle runs on *)
SettleBlocks ==
  { HeadingNode(1, 0, 0, "ltr", <<"A">>),
    HeadingNode(3, 0, 0, "ltr", <<"A">>),
    HeadingNode(5, 2, 2, "rtl", <<"B", "C">>),
    HeadingNode(7, 0, 1, "ltr", <<"D">>),
    ListItemBlock(<<TextRun(<<"-", " ", "-", " ", "a">>, FALSE)>>),
    ListItemBlock(<<TextRun(<<"a">>, TRUE), TextRun(<<"1", ".", " ", "b">>, FALSE)>>) }

(* The transform of part_005:48-84 replaces the node it is invoked on      *)
(* exactly when it gets past its two early returns                         *)
Replaces(node, isEditable) ==
  node.type = "heading" /\ isEditable /\ shouldNormalizeHeadingTag(node.tag)

(* Replacements are counted up to two *)
CountUp(n) == IF n < 2 THEN n + 1 ELSE n

InitSettle ==
  /\ tree \in SeqsUpTo(SettleBlocks, MaxNodes)
  /\ undoStack = <<>>
  /\ editable \in BOOLEAN
  /\ selection = FALSE
  /\ pending = NoClosure
  /\ last = [Idle EXCEPT !.op = "settle", !.pre = tree, !.done = FALSE]
  /\ registered = [p \in Plugins |-> TRUE]
  /\ handlers = [p \in Plugins |-> 1]
  /\ inst = [p \in Plugins |-> [i \in Instances |-> IF i = 1 THEN "owner" ELSE "unmounted"]]
  /\ invocations = 0
  /\ probe = [op |-> "settling",
              dirty |-> [i \in 1..Len(tree) |-> TRUE],
              fired |-> [i \in 1..Len(tree) |-> 0]]

(* The heading transform is invoked on a dirty heading *)
InvokeHeadingTransform ==
  /\ probe.op = "settling"
  /\ \E i \in 1..Len(tree) :
       /\ probe.dirty[i]
       /\ tree[i].type = "heading"
       /\ tree' = [tree EXCEPT ![i] = HeadingTransform(tree[i], editable)]
       /\ probe' = IF Replaces(tree[i], editable)
                   THEN [probe EXCEPT !.fired[i] = CountUp(@)]
                   ELSE [probe EXCEPT !.dirty[i] = FALSE]
  /\ UNCHANGED <<undoStack, editable, selection, pending, last>>
  /\ UNCHANGED mountVars

(* The list-item transform is invoked on a dirty list item *)
InvokeListItemTransform ==
  /\ probe.op = "settling"
  /\ \E i \in 1..Len(tree) :
       /\ probe.dirty[i]
       /\ tree[i].type = "listitem"
       /\ tree' = [tree EXCEPT ![i].children = ListItemTransform(tree[i].children, editable)]
       /\ probe' = [probe EXCEPT !.dirty[i] = FALSE]
  /\ UNCHANGED <<undoStack, editable, selection, pending, last>>
  /\ UNCHANGED mountVars

(* No node is left dirty: the cycle ends and the update commits *)
EndSettle ==
  /\ probe.op = "settling"
  /\ \A i \in 1..Len(tree) : ~probe.dirty[i]
  /\ probe' = [probe EXCEPT !.op = "settled"]
  /\ last' = [last EXCEPT !.done = TRUE]
  /\ UNCHANGED <<tree, undoStack, editable, selection, pending>>
  /\ UNCHANGED mountVars

NextSettle ==
  \/ InvokeHeadingTransform
  \/ InvokeListItemTransform
  \/ EndSettle

(* The cycle is a loop of the engine that runs while a dirty node is left *)
SpecSettle == InitSettle /\ [][NextSettle]_vars /\ WF_vars(NextSettle)

----------------------------------------------------------------------------
(* Properties *)

Settled == pending = NoClosure

PasteSeen == last.op = "paste"

(* C1: in every settled state no heading of the tree has a rank above 3,   *)
(* whatever rank the incoming headings had.                                *)
C1_NoHeadingAboveCeiling ==
  Settled =>
    \A i \in 1..Len(tree) : tree[i].type = "heading" => tree[i].tag <= 3

(* C2: a paste event on which the handler returned false never changes     *)
(* the tree, neither before the return nor through an update it left       *)
(* queued, and adds no undo entry.                                         *)
C2_RejectedPasteChangesNothing ==
  (PasteSeen /\ ~last.result) =>
    (tree = last.pre /\ Len(undoStack) = last.preUndo)

C4_ExcessHeadingBecomesRank3 ==
  (last.op \in {"paste", "construct"} /\ last.done) =>
    \A i \in 1..Len(last.attached) :
      last.attached[i].tag > 3 =>
        tree[Len(last.pre) + i] =
          HeadingNode(3, last.attached[i].format, last.attached[i].indent,
                      last.attached[i].direction, last.attached[i].children)

(* C5: the handler returns true only for an event whose nodes were all     *)
(* attached by that event's one transaction.                               *)
C5_TrueOnlyWhenInserted ==
  (PasteSeen /\ last.result) =>
    /\ last.done
    /\ last.nodes # <<>>
    /\ last.attached = last.nodes
    /\ tree = Transact(last.pre, last.nodes, editable, handlers["heading"])
    /\ Len(undoStack) = last.preUndo + 1

C5_Witness ==
  /\ PasteSeen
  /\ last.result
  /\ Len(last.attached) = 2

(* C6: for each plugin at most one handler is registered on the editor at  *)
(* any time, a mount while the editor is in the registry registers         *)
(* nothing, and one paste event reaches the dispatcher at most once.       *)
C6_AtMostOneHandler ==
  /\ \A p \in Plugins :
       /\ handlers[p] <= 1
       /\ handlers[p] = Cardinality({ i \in Instances : inst[p][i] = "owner" })
       /\ registered[p] <=> handlers[p] = 1
  /\ invocations <= 1

C6_Witness ==
  /\ \E i, j \in Instances : inst["paste"][i] = "owner" /\ inst["paste"][j] = "skipped"
  /\ handlers["paste"] = 1
  /\ invocations = 1

(* C33: for each plugin, while at least one instance of the plugin is      *)
(* mounted on the editor, its handler is registered, whatever mounts and   *)
(* unmounts of other instances came before.                                *)
C33_MountedImpliesRegistered ==
  \A p \in Plugins :
    (\E i \in Instances : inst[p][i] # "unmounted") =>
      (handlers[p] >= 1 /\ registered[p])

(* C38: when the instance that registered a plugin's handler is unmounted, *)
(* the handler is unregistered and the editor leaves the registry; a       *)
(* mount that finds the editor out of the registry registers one handler,  *)
(* so mount, unmount, mount ends with exactly one handler.                 *)
C38_TeardownClearsRegistry ==
  [][\A p \in Plugins, i \in Instances :
       /\ (inst[p][i] = "owner" /\ inst'[p][i] = "unmounted") =>
            (handlers'[p] = 0 /\ ~registered'[p])
       /\ (inst[p][i] = "unmounted" /\ inst'[p][i] # "unmounted" /\ ~registered[p]) =>
            (inst'[p][i] = "owner" /\ handlers'[p] = 1 /\ registered'[p])]_vars

C38_Witness ==
  /\ inst["paste"][1] = "unmounted"
  /\ inst["paste"][2] = "owner"
  /\ handlers["paste"] = 1
  /\ registered["paste"]

(* The lists a parsed payload holds in a recognized container shape:       *)
(* direct array, nodes property, root.children, clipboard.root.children    *)
(* or clipboard array, editorState object or serialized editorState string *)
ListsHeld(payload) ==
  (IF payload.isArray THEN {payload.items} ELSE {})
  \cup (IF payload.root.kind = "children" THEN {payload.root.list} ELSE {})
  \cup (IF payload.nodes.kind = "array" THEN {payload.nodes.list} ELSE {})
  \cup (IF payload.clipboard.kind \in {"rooted", "array"}
        THEN {payload.clipboard.list} ELSE {})
  \cup (IF payload.editorState.kind \in {"rooted", "string"}
        THEN {payload.editorState.list} ELSE {})

(* C34: the fast path works on a node list whenever some recognized        *)
(* container shape of the parsed payload holds a non-empty list, whatever  *)
(* else the payload holds, and reports no nodes only when none does.       *)
C34_AnyShapeWithNodesExtracted ==
  (last.op = "fastpath" /\ probe.op = "fastpath") =>
    ((\E l \in ListsHeld(probe.payload) : l # <<>>) <=> last.opened)

C8_GuardTripFallsBackToPlaintext ==
  (/\ PasteSeen
   /\ last.path \in {"markup", "plaintext"}
   /\ last.html \in {"oversize", "slow"}
   /\ last.plain
   /\ last.sel
   /\ last.done) =>
    /\ last.result
    /\ Len(last.attached) = 1
    /\ last.attached[1].type = "text"
    /\ tree = last.pre \o last.attached

(* C9: a native payload that parses but yields no node list falls through  *)
(* to the markup path: present markup is read, size-checked and, within    *)
(* the limits, sanitized and inserted.                                     *)
C9_NoNodesFallsThroughToMarkup ==
  (/\ PasteSeen
   /\ last.path # "guard"
   /\ last.lexical = "noshape"
   /\ last.html # "blank") =>
    /\ last.htmlRead
    /\ last.html = "ok" => (last.sanitized /\ last.opened)

(* C10: when node conversion or insertion throws inside the paste          *)
(* transaction, the tree after the transaction is the tree before it and   *)
(* the handler returns false.                                              *)
C10_ThrowLeavesTreeUnchanged ==
  (/\ PasteSeen
   /\ last.done
   /\ last.sel
   /\ last.fault \in {"convert", "insert"}) =>
    /\ tree = last.pre
    /\ ~last.result

(* C11: a paste whose markup is larger than 500 KiB never has the          *)
(* sanitizer invoked for it and is routed to the plaintext fallback.       *)
C11_OversizeRoutesToPlaintextUnsanitized ==
  (/\ PasteSeen
   /\ last.htmlRead
   /\ last.html = "oversize") =>
    /\ ~last.sanitized
    /\ last.path = "plaintext"

(* C12: when the sanitizer took more than 150 ms its output is discarded:  *)
(* no node of the sanitized markup is attached for the event and the       *)
(* dispatcher proceeds to the plaintext fallback.                          *)
C12_SlowSanitizerDiscardedForPlaintext ==
  (/\ PasteSeen
   /\ last.htmlRead
   /\ last.html = "slow") =>
    /\ \A i \in 1..Len(last.attached) : last.attached[i].type # "heading"
    /\ \A i \in 1..Len(tree) : i > Len(last.pre) => tree[i].type # "heading"
    /\ last.path = "plaintext"

(* C21: when the native representation is non-blank but is not JSON, the   *)
(* dispatcher goes on to the markup representation of the same event       *)
(* (reads it and, when it is non-blank, hands it to the markup path), and  *)
(* no exception leaves the handler.                                        *)
C21_UnparsableNativeFallsThroughToMarkup ==
  (/\ PasteSeen
   /\ last.path # "guard"
   /\ last.lexical = "notjson") =>
    /\ last.htmlRead
    /\ last.path # "native"
    /\ last.html # "blank" => last.path \in {"markup", "plaintext"}
    /\ last.html = "ok" => (last.sanitized /\ last.opened)
    /\ ~last.threw

C21_Witness ==
  /\ PasteSeen
  /\ last.lexical = "notjson"
  /\ last.html = "ok"
  /\ last.path = "markup"
  /\ last.done
  /\ last.result
  /\ tree # last.pre

(* C22: the representations are tried native first: for an event whose    *)
(* native payload parses and holds at least one node, the markup           *)
(* representation is not read, size-checked or sanitized, whether or not   *)
(* the event carries markup, and the sanitizer is not applied to the       *)
(* native nodes.                                                           *)
C22_NativeFirstMarkupUntouched ==
  (/\ PasteSeen
   /\ last.path # "guard"
   /\ last.lexical = "nodes") =>
    /\ last.path = "native"
    /\ ~last.htmlRead
    /\ ~last.sanitized
    /\ last.opened

C22_Witness ==
  /\ PasteSeen
  /\ last.lexical = "nodes"
  /\ last.html = "ok"
  /\ last.path = "native"
  /\ last.done
  /\ last.result
  /\ last.attached = last.nodes

(* C23: when markup within the size and time limits sanitizes to nothing   *)
(* but whitespace, the handler returns false, passes no closure to         *)
(* editor.update, does not enter the plaintext fallback, and the tree and  *)
(* the history stay as they were.                                          *)
C23_EmptySanitizedMarkupRejected ==
  (/\ PasteSeen
   /\ last.sanitized
   /\ last.html = "empty") =>
    /\ ~last.result
    /\ ~last.opened
    /\ last.path = "markup"
    /\ last.done
    /\ tree = last.pre
    /\ Len(undoStack) = last.preUndo

C23_Witness ==
  /\ PasteSeen
  /\ last.sanitized
  /\ last.html = "empty"
  /\ last.plain
  /\ last.sel
  /\ ~last.result

(* C24: on each inserting path, when the editor has no range selection at  *)
(* the time the insertion closure runs, nothing is attached, the tree, the *)
(* history and the selection stay as they were, and the handler returns    *)
(* false.  The native and the markup path are observed on the dispatched   *)
(* events; the plaintext path is taken on handlePlaintextFallback itself,  *)
(* for every markup and text, run inside the call and run from the queue.  *)
C24_NoSelectionNothingInserted ==
  /\ (PasteSeen /\ last.opened /\ last.done /\ ~last.sel) =>
       /\ last.attached = <<>>
       /\ tree = last.pre
       /\ Len(undoStack) = last.preUndo
       /\ selection = last.sel
       /\ ~last.result
  /\ \A html \in HtmlReps, text \in TextReps, updating \in BOOLEAN :
       LET h == handlePlaintextFallback(html, text, NoFault, updating, FALSE, FALSE)
       IN /\ ~h.result
          /\ h.inserted = <<>>
          /\ h.closure # NoClosure => RunClosure(h.closure, FALSE) = Ran(<<>>, FALSE)

C24_Witness ==
  /\ PasteSeen
  /\ last.opened
  /\ last.done
  /\ ~last.sel
  /\ last.nodes # <<>>
  /\ last.fault = "none"
  /\ last.path = "markup"
  /\ tree = last.pre
  /\ tree # <<>>

(* C25: for a read-only editor, an event without clipboard data, or an     *)
(* event none of whose representations holds anything, the handler returns *)
(* false at once: no path is entered, so no representation is parsed and   *)
(* the sanitizer is not invoked, no closure is passed to editor.update,    *)
(* and the tree and the history stay as they were.                         *)
C25_GuardsRejectWithoutEffect ==
  (/\ PasteSeen
   /\ \/ ~editable
      \/ ~last.clipboard
      \/ (last.lexical = "blank" /\ last.html = "blank" /\ ~last.plain)) =>
    /\ ~last.result
    /\ last.done
    /\ last.path \in {"guard", "none"}
    /\ ~last.sanitized
    /\ ~last.opened
    /\ ~last.threw
    /\ tree = last.pre
    /\ Len(undoStack) = last.preUndo
    /\ (~editable \/ ~last.clipboard) => (last.path = "guard" /\ ~last.htmlRead)

(* A read-only editor receives a native payload of two nodes with the      *)
(* caret placed in a non-empty document                                    *)
C25_Witness ==
  /\ PasteSeen
  /\ ~editable
  /\ last.clipboard
  /\ last.lexical = "nodes"
  /\ last.sel
  /\ tree # <<>>
  /\ ~last.result

(* C26: for an event of an editable editor whose only non-blank            *)
(* representation is text/plain, the handler returns false, passes no      *)
(* closure to editor.update and attaches nothing: the tree and the history *)
(* stay as they were and the text is left to the host.                     *)
C26_PlainTextOnlyLeftToHost ==
  (/\ PasteSeen
   /\ editable
   /\ last.clipboard
   /\ last.lexical = "blank"
   /\ last.html = "blank"
   /\ last.plain) =>
    /\ ~last.result
    /\ ~last.opened
    /\ last.done
    /\ last.path = "none"
    /\ last.attached = <<>>
    /\ tree = last.pre
    /\ Len(undoStack) = last.preUndo

C26_Witness ==
  /\ PasteSeen
  /\ editable
  /\ last.clipboard
  /\ last.lexical = "blank"
  /\ last.html = "blank"
  /\ last.plain
  /\ last.sel
  /\ ~last.result

(* sanitizeHTML has returned; the library ran on a string and returned one *)
SanitizeReturned == probe.op = "sanitized"

Sanitized ==
  /\ SanitizeReturned
  /\ probe.type = "string"
  /\ probe.purifier = "returns"

Letters ==
  {"a", "c", "d", "f", "h", "i", "j", "l", "m", "o", "p", "r", "s", "t", "v",
   "J", "S", "H", "T", "P"}

(* The scheme a URL parser reads from a reference: the letters before the  *)
(* first colon, with white space dropped and case folded; <<>> when the    *)
(* reference is not scheme-qualified.                                      *)
SchemeOf(href) ==
  LET v == RemoveWhitespace(href)
      colons == { i \in 1..Len(v) : v[i] = ":" }
  IN IF colons = {} THEN <<>>
     ELSE LET first == CHOOSE i \in colons : \A j \in colons : i <= j
          IN IF first > 1 /\ \A k \in 1..(first - 1) : v[k] \in Letters
             THEN ToLowerCase(SubSeq(v, 1, first - 1))
             ELSE <<>>

SafeSchemes == { <<>>, <<"h", "t", "t", "p">>, <<"h", "t", "t", "p", "s">>, <<"m", "a", "i", "l", "t", "o">> }

RECURSIVE AnchorsIn(_)
AnchorsIn(nodes) ==
  IF nodes = <<>> THEN {}
  ELSE LET n == Head(nodes)
       IN (IF n.tag = "a" THEN {n.attrs} ELSE {})
            \cup AnchorsIn(n.kids) \cup AnchorsIn(Tail(nodes))

RECURSIVE TagsIn(_)
TagsIn(nodes) ==
  IF nodes = <<>> THEN {}
  ELSE {Head(nodes).tag} \cup TagsIn(Head(nodes).kids) \cup TagsIn(Tail(nodes))

(* Text nodes of a fragment, and those not inside a forbidden element *)
RECURSIVE TextCount(_)
TextCount(nodes) ==
  IF nodes = <<>> THEN 0
  ELSE (IF Head(nodes).node = "text" THEN 1 ELSE 0)
         + TextCount(Head(nodes).kids) + TextCount(Tail(nodes))

RECURSIVE TextCountOutsideForbidden(_)
TextCountOutsideForbidden(nodes) ==
  IF nodes = <<>> THEN 0
  ELSE (IF Head(nodes).node = "text" THEN 1
        ELSE IF Head(nodes).tag \in FORBID_TAGS THEN 0
        ELSE TextCountOutsideForbidden(Head(nodes).kids))
         + TextCountOutsideForbidden(Tail(nodes))

OneAnchorIn == Len(probe.html) = 1 /\ probe.html[1].tag = "a"

C14_AnchorsCarryEnforcedRelTarget ==
  Sanitized =>
    /\ \A a \in AnchorsIn(probe.out) :
         a.rel = REL_ENFORCED /\ a.target = TARGET_ENFORCED
    /\ OneAnchorIn => AnchorsIn(probe.out) # {}

C14_Witness ==
  /\ Sanitized
  /\ OneAnchorIn
  /\ probe.html[1].attrs.rel = <<"x">>
  /\ probe.html[1].attrs.target = <<"_", "s">>
  /\ probe.html[1].attrs.href = <<"d", "a", "t", "a", ":", "a">>
  /\ probe.out[1].attrs = Attrs(Absent, REL_ENFORCED, TARGET_ENFORCED)

(* C15: sanitizeHTML removes every forbidden element together with its     *)
(* whole subtree: the output holds no forbidden tag, and only the text     *)
(* that stood outside every forbidden element.                             *)
C15_ForbiddenSubtreesRemoved ==
  Sanitized =>
    /\ TagsIn(probe.out) \cap FORBID_TAGS = {}
    /\ TextCount(probe.out) = TextCountOutsideForbidden(probe.html)

FormatSeen == last.op = "format" /\ probe.op = "format"

AnchorInListItem == last.sel /\ last.pre[probe.anchor].type = "listitem"

(* C31: formatHeading returns false and leaves the tree as it was when the *)
(* editor is read-only, and when the anchor of the selection lies in a     *)
(* list item and the requested block type is a heading; a request for      *)
(* 'paragraph' inside a list item is carried out.                          *)
C31_FormatHeadingGuards ==
  /\ (FormatSeen /\ ~editable) =>
       /\ ~last.result
       /\ ~last.opened
       /\ tree = last.pre
  /\ (FormatSeen /\ AnchorInListItem /\ probe.blockType # paragraph) =>
       /\ ~last.result
       /\ tree = last.pre
  /\ (/\ FormatSeen
      /\ editable
      /\ AnchorInListItem
      /\ probe.blockType = paragraph
      /\ ~probe.throws
      /\ last.done) =>
       /\ tree[probe.anchor].type = "paragraph"
       /\ tree[probe.anchor].children = last.pre[probe.anchor].children
       /\ \A i \in 1..Len(tree) : i # probe.anchor => tree[i] = last.pre[i]
       /\ ~last.updating => last.result

C31_Witness ==
  /\ FormatSeen
  /\ editable
  /\ AnchorInListItem
  /\ probe.blockType = 1
  /\ ~probe.throws
  /\ ~last.updating
  /\ last.done
  /\ ~last.result
  /\ tree = last.pre

FallbackSeen == last.op = "fallback" /\ probe.op = "fallback"

(* The text the fallback is to insert: text/plain when it is not blank,    *)
(* otherwise the text left of the markup without its tags                  *)
PreferredText ==
  IF Trim(probe.text) # "" THEN probe.text ELSE stripHtmlToText(probe.html)

(* C30: the plaintext fallback passes one closure to editor.update that    *)
(* inserts exactly text/plain when that is present and not blank, and      *)
(* otherwise exactly the text left of the markup without its tags, as one  *)
(* text run; with a range selection and no throw that run is attached in   *)
(* one transaction.  When both texts are blank it returns false and        *)
(* passes no closure.                                                      *)
C30_FallbackInsertsPreferredText ==
  /\ (FallbackSeen /\ Trim(PreferredText) # "") =>
       /\ last.opened
       /\ last.nodes = <<TextBlock(PreferredText)>>
       /\ (last.done /\ last.sel /\ last.fault = "none") =>
            /\ last.attached = <<TextBlock(PreferredText)>>
            /\ tree = last.pre \o <<TextBlock(PreferredText)>>
            /\ Len(undoStack) = last.preUndo + 1
            /\ undoStack[Len(undoStack)] = last.pre
  /\ (FallbackSeen /\ Trim(PreferredText) = "") =>
       /\ ~last.result
       /\ ~last.opened
       /\ last.done
       /\ tree = last.pre
       /\ Len(undoStack) = last.preUndo

(* text/plain is present but blank, so the text of the markup is inserted *)
C30_Witness ==
  /\ FallbackSeen
  /\ last.clipboard
  /\ probe.text = " "
  /\ stripHtmlToText(probe.html) = "s"
  /\ last.done
  /\ last.result
  /\ tree = last.pre \o <<TextBlock("s")>>

(* A reference the scheme gate is to let pass: an http:, https: or mailto: *)
(* URL, a same-document fragment, or a root or relative path               *)
PermittedSchemeOrFragment(href) ==
  LET v == ToLowerCase(TrimString(href))
  IN \/ \E scheme \in ALLOWED_SCHEMES : StartsWith(v, scheme \o <<":">>)
     \/ StartsWith(v, <<"#">>)

PermittedPath(href) ==
  LET v == TrimString(href)
  IN \/ StartsWith(v, <<"/">>)
     \/ StartsWith(v, <<".", "/">>)
     \/ StartsWith(v, <<".", ".", "/">>)

(* C27: an anchor whose href is an http:, https: or mailto: URL, a         *)
(* fragment (#...), or a root or relative path (/..., ./..., ../...)       *)
(* leaves sanitizeHTML with that href.                                     *)
C27_PermittedHrefKept ==
  (/\ Sanitized
   /\ OneAnchorIn
   /\ probe.html[1].attrs.href # Absent
   /\ \/ PermittedSchemeOrFragment(probe.html[1].attrs.href)
      \/ PermittedPath(probe.html[1].attrs.href)) =>
    /\ Len(probe.out) = 1
    /\ probe.out[1].tag = "a"
    /\ probe.out[1].attrs.href = probe.html[1].attrs.href

(* C28: sanitizeHTML returns the empty string for an argument that is not  *)
(* a string or is the empty string, when the library throws, and when the  *)
(* library returns something that is not a string; in none of these cases  *)
(* does it return the markup it was given.                                 *)
C28_FailsSafeToEmptyString ==
  SanitizeReturned =>
    ((\/ probe.type # "string"
      \/ probe.html = <<>>
      \/ probe.purifier # "returns") => probe.out = <<>>)

C28_Witness ==
  /\ SanitizeReturned
  /\ probe.type = "string"
  /\ probe.purifier = "throws"
  /\ OneAnchorIn
  /\ probe.html[1].attrs.href = <<"h", "t", "t", "p", "s", ":", "/", "/", "a">>
  /\ probe.out = <<>>

(* The elements of a fragment: tag and attributes of each *)
RECURSIVE ElementsIn(_)
ElementsIn(nodes) ==
  IF nodes = <<>> THEN {}
  ELSE LET n == Head(nodes)
       IN (IF n.node = "element" THEN {[tag |-> n.tag, attrs |-> n.attrs]} ELSE {})
            \cup ElementsIn(n.kids) \cup ElementsIn(Tail(nodes))

StrippedAttrs == {"style", "id", "class", "onclick", "data-x"}

(* C29: no element of the output of sanitizeHTML carries a style, id,      *)
(* class, event-handler or data-* attribute, and an attribute of the       *)
(* output is an href, title, target or rel of an anchor.                   *)
C29_OnlyAnchorAttributesSurvive ==
  Sanitized =>
    \A e \in ElementsIn(probe.out) :
      /\ \A n \in StrippedAttrs : e.attrs[n] = Absent
      /\ \A n \in AttrNames :
           e.attrs[n] # Absent => (e.tag = "a" /\ n \in {"href", "title", "target", "rel"})

(* A recognized list marker: one unordered glyph, or digits or a single    *)
(* letter closed by '.' or ')'                                             *)
IsListMarker(m) ==
  \/ Len(m) = 1 /\ m[1] \in UnorderedGlyphs
  \/ /\ Len(m) >= 2
     /\ m[Len(m)] \in MarkerClose
     /\ \/ \A i \in 1..(Len(m) - 1) : m[i] \in DigitChars
        \/ Len(m) = 2 /\ m[1] \in LetterChars

(* Positions k such that the first k characters are a marker and the next  *)
(* one is white space                                                      *)
MarkerEnds(text) ==
  { k \in 1..(Len(text) - 1) :
      IsListMarker(SubSeq(text, 1, k)) /\ text[k + 1] \in RegexSpace }

BeginsWithMarker(text) == MarkerEnds(text) # {}

RECURSIVE DropLeadingSpace(_)
DropLeadingSpace(text) ==
  IF text # <<>> /\ Head(text) \in RegexSpace THEN DropLeadingSpace(Tail(text)) ELSE text

(* The text after its first marker and the white space that follows it *)
AfterFirstMarker(text) ==
  LET k == CHOOSE k \in MarkerEnds(text) : TRUE
  IN DropLeadingSpace(SubSeq(text, k + 1, Len(text)))

(* The first text run of a list item that has content and is not code *)
FirstPlainRuns(runs) ==
  { i \in 1..Len(runs) :
      /\ HasContent(runs[i].text) /\ ~runs[i].code
      /\ \A j \in 1..(i - 1) : ~(HasContent(runs[j].text) /\ ~runs[j].code) }

StrippedOnce(text) ==
  LET spaced == [i \in 1..Len(text) |-> IF text[i] = "nbsp" THEN " " ELSE text[i]]
  IN IF BeginsWithMarker(text) THEN AfterFirstMarker(spaced) ELSE spaced

(* The first text run of a list item that has content *)
FirstRuns(runs) ==
  { i \in 1..Len(runs) :
      HasContent(runs[i].text) /\ \A j \in 1..(i - 1) : ~HasContent(runs[j].text) }

C17_StripsExactlyOneMarker ==
  (probe.op = "stripped" /\ BeginsWithMarker(probe.text)) =>
    /\ Cardinality(MarkerEnds(probe.text)) = 1
    /\ probe.out = AfterFirstMarker(normalizeNBSP(probe.text))
    /\ BeginsWithMarker(AfterFirstMarker(probe.text)) => BeginsWithMarker(probe.out)

C17_Witness ==
  /\ probe.op = "stripped"
  /\ probe.text = <<"-", " ", "1", ".", " ">>
  /\ probe.out = <<"1", ".", " ">>

(* C18: a text that does not begin with a list marker followed by white    *)
(* space comes back from stripListPrefix unchanged, character for          *)
(* character.                                                              *)
C18_NonMarkerTextUnchanged ==
  (probe.op = "stripped" /\ ~BeginsWithMarker(probe.text)) =>
    probe.out = probe.text

(* C18, as the code has it: a text that does not begin with a list marker  *)
(* followed by white space comes back with the same length and the same    *)
(* characters, except that every U+00A0 has become a space.                *)
C18_NonMarkerTextKeptUpToNBSP ==
  (probe.op = "stripped" /\ ~BeginsWithMarker(probe.text)) =>
    /\ Len(probe.out) = Len(probe.text)
    /\ \A i \in 1..Len(probe.text) :
         probe.out[i] = IF probe.text[i] = "nbsp" THEN " " ELSE probe.text[i]

C18_Witness ==
  /\ probe.op = "stripped"
  /\ probe.text = <<"1", ".", "a", "nbsp", "-">>
  /\ probe.out = <<"1", ".", "a", " ", "-">>

(* C32: once the list-item transform has normalized a list item, a later   *)
(* invocation of the transform on that item leaves every text run of the   *)
(* item as the first invocation left it, stacked markers included.         *)
C32_LaterInvocationChangesNothing ==
  (probe.op = "renormalized" /\ probe.editable) =>
    probe.again = probe.outRuns

(* The runs that differ between a list item before and after *)
ChangedRuns(before, after) ==
  { i \in 1..Len(before) : after[i] # before[i] }

(* after is text without one leading marker and all the white space that   *)
(* follows the marker                                                      *)
LeadingMarkerDeleted(text, after) ==
  /\ BeginsWithMarker(text)
  /\ after = AfterFirstMarker(text)

PassesExclusions(text) ==
  LET content == AfterFirstMarker(text)
  IN IF text[1] \in DashGlyphs
     THEN content # <<>> /\ Head(content) \in WordChars
     ELSE ~LooksLikeMarkdown(content)

(* C37: isLikelyListItem(text) is true exactly when hasListPrefix(text) is *)
(* true and the marker passes the exclusions; so isLikelyListItem implies  *)
(* hasListPrefix.                                                          *)
C37_LikelyIsPrefixPlusExclusions ==
  probe.op = "classified" =>
    /\ probe.likely <=> (probe.has /\ PassesExclusions(probe.text))
    /\ probe.likely => probe.has

(* The heading transform has replaced each node at most once, and only a   *)
(* heading that came in with a rank of 4 to 6                              *)
ReplacedAtMostOnce ==
  \A i \in 1..Len(tree) :
    /\ probe.fired[i] <= 1
    /\ probe.fired[i] = 1 => (last.pre[i].tag \in 4..6 /\ tree[i].tag = 3)

(* C39: the settle cycle that invokes the heading transform and the        *)
(* list-item transform on the dirty nodes of a finite tree ends; on the    *)
(* way the heading transform replaces a heading at most once, one that has *)
(* an excess rank, and its rank-3 replacement is not replaced again.       *)
C39_SettleCycleTerminates ==
  /\ [](probe.op \in {"settling", "settled"} => ReplacedAtMostOnce)
  /\ <>(probe.op = "settled")

C39_Witness ==
  /\ probe.op = "settled"
  /\ editable
  /\ Len(tree) = 2
  /\ last.pre[1].tag = 5
  /\ tree[1].tag = 3
  /\ probe.fired[1] = 1
  /\ last.pre[2].type = "listitem"
  /\ tree[2].children # last.pre[2].children

(* C40: the size guard trips exactly when the markup's UTF-8 byte length   *)
(* is greater than 512000: markup of exactly 512000 bytes passes, and      *)
(* markup of fewer than 512000 characters and more than 512000 bytes       *)
(* trips it.                                                               *)
C40_SizeGuardCountsBytes ==
  probe.op = "sized" =>
    LET c == probe.content
        bytes == c.one + 2 * c.two + 3 * c.three + 4 * c.pairs
        chars == c.one + c.two + c.three + 2 * c.pairs
    IN /\ probe.exceeds <=> bytes > 512000
       /\ bytes = 512000 => ~probe.exceeds
       /\ (chars < 512000 /\ bytes > 512000) => probe.exceeds

C40_Witness ==
  /\ probe.op = "sized"
  /\ probe.content = Content(1, 1, 170666, 0)
  /\ probe.exceeds

SettleSeen == last.op = "settle"

(* C19: a settle cycle that invokes the heading transform on headings of   *)
(* rank at most 3, the rank-3 replacement of an earlier cycle included,    *)
(* makes no transition: the tree is the tree before it and the history     *)
(* gains no entry.                                                         *)
C19_TransformIdempotentOnAllowedRanks ==
  (SettleSeen /\ \A i \in 1..Len(last.pre) : last.pre[i].tag <= 3) =>
    /\ tree = last.pre
    /\ Len(undoStack) = last.preUndo
    /\ \A i \in 1..Len(tree) : HeadingTransform(tree[i], editable) = tree[i]

C19_Witness ==
  /\ SettleSeen
  /\ editable
  /\ Len(undoStack) = 1
  /\ undoStack[1][1].tag = 5
  /\ last.pre[1].tag = 3
  /\ tree = last.pre

====
